---- MODULE Spec2Model ----
(***************************************************************************)
(* vibemit: the response normalizer (parseResponse, cleanCandidate,        *)
(* isValidCommitMessage) and the generation controller                     *)
(* (generateCommitMessages, callOllama, validateSubjectLength) of          *)
(* src/src/ollama.ts.                                                      *)
(*                                                                         *)
(* A JavaScript string is a sequence of UTF-16 code units; here it is a    *)
(* sequence of one-unit strings, so Len is String.length.  The code unit   *)
(* U+2022 (the bullet glyph) is written "U+2022" and the backtick          *)
(* "U+0060".                                                               *)
(***************************************************************************)
EXTENDS Integers, Sequences, FiniteSets, TLC

(***************************************************************************)
(* Characters and the string primitives of the JavaScript runtime          *)
(***************************************************************************)

BulletGlyph == "U+2022"
Backtick == "U+0060"

UpperChars == <<"A","B","C","D","E","F","G","H","I","J","K","L","M",
                "N","O","P","Q","R","S","T","U","V","W","X","Y","Z">>
LowerChars == <<"a","b","c","d","e","f","g","h","i","j","k","l","m",
                "n","o","p","q","r","s","t","u","v","w","x","y","z">>

\* String.prototype.toLowerCase on one code unit.
LowerChar(c) ==
    LET Pick(hit) == IF hit = {} THEN c ELSE LowerChars[CHOOSE k \in hit : TRUE]
    IN  Pick({k \in 1..26 : UpperChars[k] = c})

\* String.prototype.toLowerCase.
toLowerCase(s) == [i \in 1..Len(s) |-> LowerChar(s[i])]

\* The regular-expression class \s (and the set String.prototype.trim strips).
IsSpace(c) == c \in {" ", "\n", "\t", "\r"}

\* Number of leading code units of s that are in the set cls.
LeadRun(s, cls) ==
    IF \E i \in 1..Len(s) : s[i] \notin cls
    THEN (CHOOSE i \in 1..Len(s) : s[i] \notin cls /\ \A j \in 1..(i-1) : s[j] \in cls) - 1
    ELSE Len(s)

\* Number of trailing code units of s that are in the set cls.
TrailRun(s, cls) ==
    IF \E i \in 1..Len(s) : s[i] \notin cls
    THEN Len(s) - (CHOOSE i \in 1..Len(s) : s[i] \notin cls /\ \A j \in (i+1)..Len(s) : s[j] \in cls)
    ELSE Len(s)

SpaceChars == {" ", "\n", "\t", "\r"}

\* s.slice(n): s without its first n code units.
DropFirst(s, n) == SubSeq(s, n + 1, Len(s))

\* s without its last n code units.
DropLast(s, n) == SubSeq(s, 1, Len(s) - n)

\* String.prototype.trim.
trim(s) ==
    LET TrimEnd(a) == DropLast(a, TrailRun(a, SpaceChars))
    IN  TrimEnd(DropFirst(s, LeadRun(s, SpaceChars)))

\* Does the (lower-case) pattern pat occur in s at index i, ignoring case?
MatchAt(s, i, pat) ==
    /\ i >= 1
    /\ i + Len(pat) - 1 <= Len(s)
    /\ \A k \in 1..Len(pat) : LowerChar(s[i + k - 1]) = pat[k]

\* First index >= from at which pat occurs in s (ignoring case), 0 if none.
IndexOf(s, pat, from) ==
    LET First(hits) == IF hits = {} THEN 0
                       ELSE CHOOSE i \in hits : \A j \in hits : i <= j
    IN  First({i \in from..Len(s) : MatchAt(s, i, pat)})

\* The code-fence marker: three backticks.
Fence == <<Backtick, Backtick, Backtick>>

\* s.includes(fence)
includesFence(s) == IndexOf(s, Fence, 1) # 0

\* String.prototype.split with a one-unit separator.
RECURSIVE split(_, _)
split(s, sep) ==
    LET Cut(p) == IF p = 0 THEN <<s>>
                  ELSE <<SubSeq(s, 1, p - 1)>> \o split(DropFirst(s, p), sep)
    IN  Cut(IndexOf(s, <<sep>>, 1))

\* Array.prototype.join with a one-unit separator.
RECURSIVE join(_, _)
join(parts, sep) ==
    IF Len(parts) = 0 THEN <<>>
    ELSE IF Len(parts) = 1 THEN parts[1]
    ELSE parts[1] \o <<sep>> \o join(Tail(parts), sep)

\* s.split(/\n{3,}/): the separators are the maximal runs of three or more
\* newlines.
RECURSIVE splitBlankRuns(_)
splitBlankRuns(s) ==
    LET AfterRun(rest) == DropFirst(rest, LeadRun(rest, {"\n"}))
        Cut(p) == IF p = 0 THEN <<s>>
                  ELSE <<SubSeq(s, 1, p - 1)>> \o splitBlankRuns(AfterRun(DropFirst(s, p - 1)))
    IN  Cut(IndexOf(s, <<"\n","\n","\n">>, 1))

\* Array.prototype.slice(0, n).
slice(xs, n) == SubSeq(xs, 1, IF Len(xs) < n THEN Len(xs) ELSE n)

Range(xs) == {xs[i] : i \in 1..Len(xs)}

(***************************************************************************)
(* cleanCandidate                                                          *)
(***************************************************************************)

ThinkOpen  == <<"<","t","h","i","n","k",">">>
ThinkClose == <<"<","/","t","h","i","n","k",">">>

\* text.replace(/^\d+[\.\)\:]\s*/, "")
stripNumbering(s) ==
    LET SkipSpace(r) == DropFirst(r, LeadRun(r, SpaceChars))
        After(d) == IF d >= 1 /\ d < Len(s) /\ s[d + 1] \in {".", ")", ":"}
                    THEN SkipSpace(DropFirst(s, d + 1))
                    ELSE s
    IN  After(LeadRun(s, {"0","1","2","3","4","5","6","7","8","9"}))

\* text.replace(/^[-\*\u2022]\s*/, "")
stripBullet(s) ==
    LET SkipSpace(r) == DropFirst(r, LeadRun(r, SpaceChars))
    IN  IF Len(s) >= 1 /\ s[1] \in {"-", "*", BulletGlyph}
        THEN SkipSpace(DropFirst(s, 1))
        ELSE s

\* text.replace(/^[cls]+|[cls]+$/g, ""): the leading run and then the
\* trailing run of what is left.
stripWrapping(s, cls) ==
    LET StripEnd(a) == DropLast(a, TrailRun(a, cls))
    IN  StripEnd(DropFirst(s, LeadRun(s, cls)))

\* text.replace(/<\/?think>/gi, ""): every occurrence found in one
\* left-to-right scan; the result is not scanned again.
RECURSIVE stripThinkTags(_)
stripThinkTags(s) ==
    LET Cut(o, c) ==
            IF o = 0 /\ c = 0 THEN s
            ELSE LET p == IF c = 0 \/ (o # 0 /\ o < c) THEN o ELSE c
                     n == IF c = 0 \/ (o # 0 /\ o < c) THEN 7 ELSE 8
                 IN  SubSeq(s, 1, p - 1) \o stripThinkTags(DropFirst(s, p + n - 1))
    IN  Cut(IndexOf(s, ThinkOpen, 1), IndexOf(s, ThinkClose, 1))

cleanCandidate(text) ==
    LET c1 == trim(text)
        c2 == stripNumbering(c1)
        c3 == stripBullet(c2)
        c4 == stripWrapping(c3, {"\"", "'", Backtick})
        c5 == stripWrapping(c4, {Backtick, "*", "_"})
        c6 == stripThinkTags(c5)
    IN  trim(c6)

(***************************************************************************)
(* dedupeCandidates                                                        *)
(***************************************************************************)

\* The loop of dedupeCandidates with its accumulator ("unique"); "seen" is
\* the set of lower-cased members of "unique".
RECURSIVE dedupeInto(_, _)
dedupeInto(unique, rest) ==
    IF Len(rest) = 0 THEN unique
    ELSE LET key  == toLowerCase(rest[1])
             seen == {toLowerCase(unique[i]) : i \in 1..Len(unique)}
         IN  IF key \notin seen
             THEN dedupeInto(Append(unique, rest[1]), Tail(rest))
             ELSE dedupeInto(unique, Tail(rest))

\* dedupeCandidates with the key taken without c.toLowerCase().
RECURSIVE dedupeExactInto(_, _)
dedupeExactInto(unique, rest) ==
    IF Len(rest) = 0 THEN unique
    ELSE IF rest[1] \in Range(unique)
         THEN dedupeExactInto(unique, Tail(rest))
         ELSE dedupeExactInto(Append(unique, rest[1]), Tail(rest))

dedupeCandidates_caseSensitive(candidates) == dedupeExactInto(<<>>, candidates)

dedupeCandidates(candidates) == dedupeInto(<<>>, candidates)

(***************************************************************************)
(* isValidCommitMessage / filterValidCommitMessages                        *)
(***************************************************************************)

\* /\s[-*\u2022]\s+/.test(s)
hasBulletPattern(s) ==
    \E i \in 1..(Len(s) - 2) :
        /\ IsSpace(s[i])
        /\ s[i + 1] \in {"-", "*", BulletGlyph}
        /\ IsSpace(s[i + 2])

\* The filter without the test for a bullet inside the subject.
isValidCommitMessage_noBulletTest(message, hasBody) ==
    LET LinesOk(lines) ==
            /\ Len(trim(lines[1])) # 0
            /\ ~(~hasBody /\ Len(lines) > 1)
            /\ hasBody => \E i \in 2..Len(lines) : Len(trim(lines[i])) > 0
    IN  /\ Len(trim(message)) # 0
        /\ ~includesFence(message)
        /\ LinesOk(split(message, "\n"))

isValidCommitMessage(message, hasBody) ==
    LET SubjectOk(subject) ==
            /\ Len(subject) # 0
            /\ ~(~hasBody /\ hasBulletPattern(subject))
        LinesOk(lines) ==
            /\ SubjectOk(trim(lines[1]))
            /\ ~(~hasBody /\ Len(lines) > 1)
            /\ hasBody => \E i \in 2..Len(lines) : Len(trim(lines[i])) > 0
    IN  /\ Len(trim(message)) # 0
        /\ ~includesFence(message)
        /\ LinesOk(split(message, "\n"))

RECURSIVE filterValidCommitMessages(_, _)
filterValidCommitMessages(messages, hasBody) ==
    IF Len(messages) = 0 THEN <<>>
    ELSE (IF isValidCommitMessage(messages[1], hasBody) THEN <<messages[1]>> ELSE <<>>)
         \o filterValidCommitMessages(Tail(messages), hasBody)

(***************************************************************************)
(* JSON.parse (ECMA-404), as far as parseStructuredResponse looks at the   *)
(* result: a value is a string, an array, an object (its members in source *)
(* order) or something else (number, true, false, null).                   *)
(***************************************************************************)

\* The code unit at index i of s, "" past either end.
At(s, i) == IF i \in 1..Len(s) THEN s[i] ELSE ""

\* Exact (case-sensitive) occurrence of pat in s at index i.
MatchAtExact(s, i, pat) ==
    /\ i >= 1
    /\ i + Len(pat) - 1 <= Len(s)
    /\ \A k \in 1..Len(pat) : s[i + k - 1] = pat[k]

\* Index of the first code unit at or after i that is not JSON whitespace.
SkipWs(s, i) == i + LeadRun(DropFirst(s, i - 1), SpaceChars)

\* Number of decimal digits of s starting at index i.
DigitsAt(s, i) == LeadRun(DropFirst(s, i - 1), {"0","1","2","3","4","5","6","7","8","9"})

HexDigits == <<"0","1","2","3","4","5","6","7","8","9","A","B","C","D","E","F">>

IsHex(c) == \E k \in 1..16 : LowerChar(HexDigits[k]) = LowerChar(c)

HexVal(c) == (CHOOSE k \in 1..16 : LowerChar(HexDigits[k]) = LowerChar(c)) - 1

\* The code units U+0020 .. U+007E in order (U+0060 is the backtick).
PrintableAscii ==
    <<" ","!","\"","#","$","%","&","'","(",")","*","+",",","-",".","/",
      "0","1","2","3","4","5","6","7","8","9",":",";","<","=",">","?",
      "@","A","B","C","D","E","F","G","H","I","J","K","L","M","N","O",
      "P","Q","R","S","T","U","V","W","X","Y","Z","[","\\","]","^","_",
      Backtick,"a","b","c","d","e","f","g","h","i","j","k","l","m","n","o",
      "p","q","r","s","t","u","v","w","x","y","z","{","|","}","~">>

\* The code unit named by the four hex digits of a \uXXXX escape.
CodeUnit(h1, h2, h3, h4) ==
    LET Unit(v1, v2, v3, v4) ==
            LET n == 4096 * v1 + 256 * v2 + 16 * v3 + v4
            IN  IF n >= 32 /\ n <= 126 THEN PrintableAscii[n - 31]
                ELSE IF n = 9 THEN "\t"
                ELSE IF n = 10 THEN "\n"
                ELSE IF n = 13 THEN "\r"
                ELSE "U+" \o HexDigits[v1 + 1] \o HexDigits[v2 + 1]
                          \o HexDigits[v3 + 1] \o HexDigits[v4 + 1]
    IN  Unit(HexVal(h1), HexVal(h2), HexVal(h3), HexVal(h4))

\* The code unit of a two-character escape \c.
SimpleEscape(c) ==
    CASE c = "\"" -> "\""
      [] c = "\\" -> "\\"
      [] c = "/"  -> "/"
      [] c = "b"  -> "U+0008"
      [] c = "f"  -> "U+000C"
      [] c = "n"  -> "\n"
      [] c = "r"  -> "\r"
      [] c = "t"  -> "\t"

\* Code units that may not appear unescaped inside a JSON string.
ControlChars == {"\n", "\t", "\r", "U+0008", "U+000C"}

JsonFail == [ok |-> FALSE]

\* The rest of a string literal whose opening quote has been read; i is the
\* next index and acc the decoded content so far.
\* (Plain content is taken a run at a time: PlainRunAt is the number of code
\* units from index i on that are neither the quote, nor the backslash, nor
\* a control character.)
PlainRunAt(s, i) ==
    LET stops == {j \in i..Len(s) : s[j] \in ({"\"", "\\"} \cup ControlChars)}
    IN  IF stops = {} THEN Len(s) + 1 - i
        ELSE (CHOOSE j \in stops : \A k \in stops : j <= k) - i

RECURSIVE ScanString(_, _, _)
ScanString(s, i0, acc0) ==
    LET Scan(i) ==
            LET acc == acc0 \o SubSeq(s, i0, i - 1)
            IN  IF i > Len(s) THEN JsonFail
                ELSE IF s[i] = "\""
                THEN [ok |-> TRUE, v |-> [t |-> "string", s |-> acc], next |-> i + 1]
                ELSE IF s[i] = "\\" THEN
                    IF At(s, i + 1) \in {"\"", "\\", "/", "b", "f", "n", "r", "t"}
                    THEN ScanString(s, i + 2, Append(acc, SimpleEscape(s[i + 1])))
                    ELSE IF /\ At(s, i + 1) = "u"
                            /\ i + 5 <= Len(s)
                            /\ \A k \in 2..5 : IsHex(s[i + k])
                    THEN ScanString(s, i + 6,
                            Append(acc, CodeUnit(s[i + 2], s[i + 3], s[i + 4], s[i + 5])))
                    ELSE JsonFail
                ELSE JsonFail
    IN  Scan(i0 + PlainRunAt(s, i0))

\* A number literal starting at index i:
\* -? (0 | [1-9][0-9]*) (\.[0-9]+)? ([eE][+-]?[0-9]+)?
ScanNumber(s, i) ==
    LET \* j0: after the sign; j1: after the integer part; j2: after the
        \* fraction; k0: after the exponent's sign; j3: after the exponent.
        Result(j0, j1, j2, k0, j3) ==
            IF \/ j1 = j0
               \/ (At(s, j1) = "." /\ j2 = j1 + 1)
               \/ (At(s, j2) \in {"e", "E"} /\ j3 = k0)
            THEN JsonFail
            ELSE [ok |-> TRUE, v |-> [t |-> "other"], next |-> j3]
        ExpPart(j0, j1, j2, k0) ==
            Result(j0, j1, j2, k0,
                   IF At(s, j2) \in {"e", "E"} THEN k0 + DigitsAt(s, k0) ELSE j2)
        FracPart(j0, j1, j2) ==
            ExpPart(j0, j1, j2, IF At(s, j2 + 1) \in {"+", "-"} THEN j2 + 2 ELSE j2 + 1)
        IntPart(j0, j1) ==
            FracPart(j0, j1, IF At(s, j1) = "." THEN j1 + 1 + DigitsAt(s, j1 + 1) ELSE j1)
        SignPart(j0) ==
            IntPart(j0, IF At(s, j0) = "0" THEN j0 + 1 ELSE j0 + DigitsAt(s, j0))
    IN  SignPart(IF At(s, i) = "-" THEN i + 1 ELSE i)

RECURSIVE ParseValue(_, _)
RECURSIVE ParseElements(_, _, _)
RECURSIVE ParseMembers(_, _, _)

\* A JSON value starting at index i (leading whitespace allowed).
ParseValue(s, i0) ==
    LET \* i: the first non-blank index; j: the first non-blank index after it.
        Value(i, j) ==
            IF At(s, i) = "\"" THEN ScanString(s, i + 1, <<>>)
            ELSE IF At(s, i) = "[" THEN
                IF At(s, j) = "]"
                THEN [ok |-> TRUE, v |-> [t |-> "array", a |-> <<>>], next |-> j + 1]
                ELSE ParseElements(s, i + 1, <<>>)
            ELSE IF At(s, i) = "{" THEN
                IF At(s, j) = "}"
                THEN [ok |-> TRUE, v |-> [t |-> "object", o |-> <<>>], next |-> j + 1]
                ELSE ParseMembers(s, i + 1, <<>>)
            ELSE IF MatchAtExact(s, i, <<"t","r","u","e">>)
                THEN [ok |-> TRUE, v |-> [t |-> "other"], next |-> i + 4]
            ELSE IF MatchAtExact(s, i, <<"f","a","l","s","e">>)
                THEN [ok |-> TRUE, v |-> [t |-> "other"], next |-> i + 5]
            ELSE IF MatchAtExact(s, i, <<"n","u","l","l">>)
                THEN [ok |-> TRUE, v |-> [t |-> "null"], next |-> i + 4]
            ELSE ScanNumber(s, i)
        From(i) == Value(i, SkipWs(s, i + 1))
    IN  From(SkipWs(s, i0))

\* The elements of an array after "[" or ","; acc holds those read so far.
ParseElements(s, i, acc) ==
    LET \* r: the element read; j: the first non-blank index after it.
        Sep(r, j) ==
            IF At(s, j) = "," THEN ParseElements(s, j + 1, Append(acc, r.v))
            ELSE IF At(s, j) = "]"
            THEN [ok |-> TRUE, v |-> [t |-> "array", a |-> Append(acc, r.v)], next |-> j + 1]
            ELSE JsonFail
        Element(r) == IF ~r.ok THEN JsonFail ELSE Sep(r, SkipWs(s, r.next))
    IN  Element(ParseValue(s, i))

\* The members of an object after "{" or ","; acc holds those read so far.
ParseMembers(s, i, acc) ==
    LET \* key: the member's name; r: its value; j: the first non-blank index
        \* after the value; c: the first non-blank index after the name.
        Sep(key, r, j) ==
            LET mem == Append(acc, [k |-> key.v.s, v |-> r.v])
            IN  IF At(s, j) = "," THEN ParseMembers(s, j + 1, mem)
                ELSE IF At(s, j) = "}"
                THEN [ok |-> TRUE, v |-> [t |-> "object", o |-> mem], next |-> j + 1]
                ELSE JsonFail
        Member(key, r) == IF ~r.ok THEN JsonFail ELSE Sep(key, r, SkipWs(s, r.next))
        Colon(key, c) == IF At(s, c) # ":" THEN JsonFail
                         ELSE Member(key, ParseValue(s, c + 1))
        Key(key) == IF ~key.ok THEN JsonFail ELSE Colon(key, SkipWs(s, key.next))
        Name(k0) == Key(IF At(s, k0) = "\"" THEN ScanString(s, k0 + 1, <<>>) ELSE JsonFail)
    IN  Name(SkipWs(s, i))

\* JSON.parse(text): [ok |-> FALSE] stands for the SyntaxError.
JSONparse(text) ==
    LET Whole(r) == IF r.ok /\ SkipWs(text, r.next) = Len(text) + 1
                    THEN [ok |-> TRUE, v |-> r.v]
                    ELSE JsonFail
    IN  Whole(ParseValue(text, 1))

(***************************************************************************)
(* parseStructuredResponse                                                 *)
(***************************************************************************)

\* parsed.filter((v) => typeof v === "string")
RECURSIVE stringElements(_)
stringElements(a) ==
    IF Len(a) = 0 THEN <<>>
    ELSE (IF a[1].t = "string" THEN <<a[1].s>> ELSE <<>>) \o stringElements(Tail(a))

MessagesKey == <<"m","e","s","s","a","g","e","s">>

\* parsed.messages: the value of the last member named "messages".
messagesOf(o) ==
    LET idx == {i \in 1..Len(o) : o[i].k = MessagesKey}
    IN  o[CHOOSE i \in idx : \A j \in idx : j <= i].v

\* raw.match(/```(?:json)?\s*([\s\S]*?)```/i): the capture group of the
\* leftmost match, [found |-> FALSE] when the text has no match.
fencedBlock(raw) ==
    LET \* p: the opening fence; cs: the start of the capture group; q: the
        \* closing fence.
        Close(p, cs, q) == IF p = 0 \/ q = 0 THEN [found |-> FALSE]
                           ELSE [found |-> TRUE, text |-> SubSeq(raw, cs, q - 1)]
        Group(p, cs) == Close(p, cs, IndexOf(raw, Fence, cs))
        Open(p) == Group(p, SkipWs(raw, IF MatchAt(raw, p + 3, <<"j","s","o","n">>)
                                        THEN p + 7 ELSE p + 3))
    IN  Open(IndexOf(raw, Fence, 1))

\* Only the whole text is tried.
structuredAttempts_wholeOnly(raw) == <<trim(raw)>>

\* The list of texts parseStructuredResponse tries to parse, in order.
structuredAttempts(raw) ==
    LET Second(fenced) == IF fenced.found /\ Len(fenced.text) > 0
                          THEN <<trim(fenced.text)>> ELSE <<>>
    IN  <<trim(raw)>> \o Second(fencedBlock(raw))

\* The body of the for loop for one text: the list it returns, or
\* [found |-> FALSE] when the loop goes on to the next text.
structuredFrom(candidate) ==
    LET Messages(m) == IF m.t = "array"
                       THEN [found |-> TRUE, list |-> stringElements(m.a)]
                       ELSE [found |-> FALSE]
        Shape(parsed) ==
            IF Len(candidate) = 0 \/ ~parsed.ok THEN [found |-> FALSE]
            ELSE IF parsed.v.t = "array"
                 THEN [found |-> TRUE, list |-> stringElements(parsed.v.a)]
            ELSE IF /\ parsed.v.t = "object"
                    /\ \E i \in 1..Len(parsed.v.o) : parsed.v.o[i].k = MessagesKey
                 THEN Messages(messagesOf(parsed.v.o))
            ELSE [found |-> FALSE]
    IN  Shape(JSONparse(candidate))

\* The for loop over the texts still to try; [found |-> FALSE] stands for the
\* null result.
RECURSIVE structuredLoop(_)
structuredLoop(attempts) ==
    LET Try(r) == IF r.found THEN r ELSE structuredLoop(Tail(attempts))
    IN  IF Len(attempts) = 0 THEN [found |-> FALSE]
        ELSE Try(structuredFrom(attempts[1]))

parseStructuredResponse(raw) == structuredLoop(structuredAttempts(raw))

(***************************************************************************)
(* parseResponse                                                           *)
(***************************************************************************)

\* No block is removed.
stripThinkBlocks_keepsBlocks(s) == s

\* raw.replace(/<think>[\s\S]*?<\/think>/gi, ""): each opening tag is
\* paired with the first closing tag after it; scanning resumes after the
\* removed block.
RECURSIVE stripThinkBlocks(_)
stripThinkBlocks(s) ==
    LET Block(o, c) == IF o = 0 \/ c = 0 THEN s
                       ELSE SubSeq(s, 1, o - 1) \o stripThinkBlocks(DropFirst(s, c + 7))
        Open(o) == Block(o, IF o = 0 THEN 0 ELSE IndexOf(s, ThinkClose, o + 7))
    IN  Open(IndexOf(s, ThinkOpen, 1))

\* xs.map((c) => cleanCandidate(c)).filter((c) => c.length > 0)
RECURSIVE cleanAll(_)
cleanAll(xs) ==
    LET Keep(c) == IF Len(c) > 0 THEN <<c>> ELSE <<>>
    IN  IF Len(xs) = 0 THEN <<>>
        ELSE Keep(cleanCandidate(xs[1])) \o cleanAll(Tail(xs))

\* The local "candidates" of parseResponse just before dedupeCandidates is
\* applied to it (the empty list on the two early returns).
rawCandidates(raw, hasBody) ==
    LET Pieces(cleaned, structured) ==
            IF structured.found THEN structured.list
            ELSE IF hasBody THEN splitBlankRuns(cleaned)
            ELSE split(cleaned, "\n")
        Cleaned(cleaned) ==
            IF Len(trim(raw)) = 0 \/ Len(cleaned) = 0 THEN <<>>
            ELSE cleanAll(Pieces(cleaned, parseStructuredResponse(cleaned)))
    IN  Cleaned(trim(stripThinkBlocks(raw)))

\* The candidates are also put through filterValidCommitMessages.
parseResponse_validOnly(raw, hasBody) ==
    slice(dedupeCandidates(filterValidCommitMessages(rawCandidates(raw, hasBody), hasBody)), 3)

parseResponse(raw, hasBody) ==
    slice(dedupeCandidates(rawCandidates(raw, hasBody)), 3)

(***************************************************************************)
(* generateCommitMessages: constants and pure parts                        *)
(***************************************************************************)

MAX_ATTEMPTS == 3

\* Sampling parameters are in units of 0.1: 2 is 0.2, 11 is 1.1.
BASE_TEMPERATURE == 2
TEMPERATURE_STEP == 2
REPEAT_PENALTY == 11
SHORTEN_TEMPERATURE == 1
SHORTEN_NUM_PREDICT == 80

\* The subject-length threshold of validateSubjectLength.
SUBJECT_LIMIT == 72
\* message.slice(0, 69)
TRUNCATE_KEEP == 69

POOL_TARGET == 3

maxTokens(hasBody) == IF hasBody THEN 400 ELSE 300

\* The temperature without the per-attempt step.
temperatureOf_flat(att) == BASE_TEMPERATURE

temperatureOf(att) == BASE_TEMPERATURE + att * TEMPERATURE_STEP

\* The loop condition without the test of the pool size.
loopCondition_noPoolTest(att, cands) == att < MAX_ATTEMPTS

\* The loop condition with an off-by-one attempt bound.
loopCondition_oneShort(att, cands) == att < MAX_ATTEMPTS - 1 /\ Len(cands) < POOL_TARGET

\* The condition of the for loop.
loopCondition(att, cands) == att < MAX_ATTEMPTS /\ Len(cands) < POOL_TARGET

\* for (const c of parsed) if (!candidates.includes(c)) candidates.push(c)
\* A merge that puts the new candidates in front of the pool.
mergeCandidates_newFirst(pool, parsed) ==
    SelectSeq(parsed, LAMBDA c : c \notin Range(pool)) \o pool

RECURSIVE mergeCandidates(_, _)
mergeCandidates(pool, parsed) ==
    IF Len(parsed) = 0 THEN pool
    ELSE mergeCandidates(IF parsed[1] \in Range(pool) THEN pool ELSE Append(pool, parsed[1]),
                         Tail(parsed))

\* The pool without the final slice.
finalPool_noSlice(cands) == cands

\* candidates.slice(0, 3)
finalPool(cands) == slice(cands, 3)

\* The request body of one primary attempt.
generateRequest(att, hasBody) ==
    [kind |-> "generate", n |-> att, temperature |-> temperatureOf(att),
     num_predict |-> maxTokens(hasBody), repeat_penalty |-> REPEAT_PENALTY,
     format |-> "COMMIT_MESSAGES_SCHEMA", text |-> <<>>]

\* The request body of validateSubjectLength for the line at pool index i.
shortenRequest(i, line) ==
    [kind |-> "shorten", n |-> i, temperature |-> SHORTEN_TEMPERATURE,
     num_predict |-> SHORTEN_NUM_PREDICT, repeat_penalty |-> REPEAT_PENALTY,
     format |-> "none", text |-> line]

Ellipsis == <<".", ".", ".">>

\* Truncation that keeps SUBJECT_LIMIT code units before the ellipsis.
truncate_keepLimit(message) == slice(message, SUBJECT_LIMIT) \o Ellipsis

\* message.slice(0, 69) + "..."
truncate(message) == slice(message, TRUNCATE_KEEP) \o Ellipsis

\* The whole message is measured in both modes.
subjectOf_wholeMessage(message, hasBody) == message

\* The line a candidate is measured by: the whole message in single-line
\* mode (validateSubjectLength), lines[0] in subject+body mode
\* (validateBodySubjectLength).
subjectOf(message, hasBody) ==
    IF hasBody THEN split(message, "\n")[1] ELSE message

\* Every candidate is sent for shortening.
needsRepair_always(message, hasBody) == TRUE

\* Does the candidate go to the model for shortening?
needsRepair(message, hasBody) == Len(subjectOf(message, hasBody)) > SUBJECT_LIMIT

\* validateSubjectLength once callOllama has returned raw: the string it
\* returns ("value") and the return statement that produced it ("how").
shortenedOrTruncated(line, raw) ==
    LET Pick(shortened) == IF Len(shortened) > 0 /\ Len(shortened) <= SUBJECT_LIMIT
                           THEN [value |-> shortened, how |-> "shortened"]
                           ELSE [value |-> truncate(line), how |-> "truncated"]
    IN  Pick(cleanCandidate(raw))

\* The candidate with its measured line replaced: lines[0] = shortened;
\* lines.join("\n") in subject+body mode.
withSubject(message, hasBody, line) ==
    IF hasBody THEN join(<<line>> \o Tail(split(message, "\n")), "\n") ELSE line

(***************************************************************************)
(* Bounds and the texts the model backend answers with                     *)
(***************************************************************************)

\* By how many code units the over-length subjects exceed SUBJECT_LIMIT.
Excess == 2

\* Longest raw text of the exhaustive part of the normalizer's inputs.
MaxRawLen == 5

Pad(n) == [i \in 1..n |-> "x"]

LongA == <<"F","i","x"," ">> \o Pad(SUBJECT_LIMIT - 4 + Excess)
LongB == <<"A","d","d"," ">> \o Pad(SUBJECT_LIMIT - 4 + Excess)
LongC == <<"U","s","e"," ">> \o Pad(SUBJECT_LIMIT - 4 + Excess)

\* "Fix a", blank line, "- d"
RespOne == <<"F","i","x"," ","a","\n","\n","-"," ","d">>

\* Two blocks separated by two blank lines; the first differs from RespOne
\* in letter case only.
RespTwo == <<"f","i","x"," ","a","\n","\n","-"," ","d","\n","\n","\n",
             "A","d","d"," ","b","\n","\n","-"," ","e">>

\* {"messages":["<LongA>\n\n- d","<LongB>\n\n- d"]} with JSON \n escapes.
RespJsonLong ==
    <<"{","\"","m","e","s","s","a","g","e","s","\"",":","[","\"">> \o LongA
    \o <<"\\","n","\\","n","-"," ","d","\"",",","\"">> \o LongB
    \o <<"\\","n","\\","n","-"," ","d","\"","]","}">>

\* Two over-length lines.
RespLongLines == LongA \o <<"\n">> \o LongB

\* One over-length line.
RespLongOne == LongC

\* ["Add c", "x - y", 5]
RespJsonArray == <<"[","\"","A","d","d"," ","c","\"",","," ","\"","x"," ","-"," ","y","\"",","," ","5","]">>

\* A reasoning block followed by a bare code fence: nothing usable.  (A
\* response object without a "response" field parses to the same empty
\* list.)
RespNothing == ThinkOpen \o <<"F","i","x"," ","a">> \o ThinkClose \o <<"\n">> \o Fence

GenerateResponses ==
    {RespOne, RespTwo, RespJsonLong, RespLongLines, RespLongOne, RespJsonArray,
     RespNothing}

\* "Fix x" in double quotes.
ShortQuoted == <<"\"","F","i","x"," ","x","\"">>
\* Two short lines.
ShortTwoLines == <<"F","i","x"," ","y","\n","m","o","r","e">>
\* A short text with fenced code in it.
ShortFenced == <<"U","s","e"," ">> \o Fence \o <<"x">> \o Fence

ShortenResponses == {ShortQuoted, <<>>, LongB, ShortTwoLines, ShortFenced}

(***************************************************************************)
(* State                                                                   *)
(***************************************************************************)

VARIABLES
    pc,          \* where the invocation is: "idle", "awaitGenerate",
                 \* "awaitShorten", "returned", "rejected", "exited";
                 \* "parse"/"parsed" for a bare parseResponse call
    hasBody,     \* the output mode
    attempt,     \* the loop variable of generateCommitMessages
    candidates,  \* the local "candidates" of generateCommitMessages
    inFlight,    \* the fetch calls that have not settled yet
    requests,    \* every request body passed to callOllama, in issue order
    settled,     \* per pool index, the state of the promise Promise.all waits for
    returned,    \* the list generateCommitMessages resolved with
    stderr,      \* the message written by console.error before process.exit(1)
    failed,      \* the request whose fetch failed or came back non-ok
    praw,        \* argument of the bare parseResponse call
    pout,        \* its result
    merged,      \* "candidates" as the last pass of the for loop left it,
                 \* before candidates.slice(0, 3)
    file,        \* the rules file: whether it exists, and its text
    calls,       \* every finished call of getRules, addRule and clearRules
    proc,        \* per process, where it is inside a call and its locals
    opts,        \* the options the CLI was started with
    cliPc,       \* where program.action is
    cliCandidates, \* the local "candidates" of program.action
    selected,    \* the local "selected": empty until assigned, then one message
    effects,     \* what the CLI has done to the outside, in order
    exitCode     \* the exit code, once cliPc is "done"

ollamaVars == <<pc, hasBody, attempt, candidates, inFlight, requests, settled,
                returned, stderr, failed, praw, pout, merged>>

configVars == <<file, calls, proc>>

cliVars == <<opts, cliPc, cliCandidates, selected, effects, exitCode>>

vars == <<pc, hasBody, attempt, candidates, inFlight, requests, settled,
          returned, stderr, failed, praw, pout, merged, file, calls, proc,
          opts, cliPc, cliCandidates, selected, effects, exitCode>>

Procs == {1, 2}

NoFile == [exists |-> FALSE, text |-> <<>>]

IdleProc == [pc |-> "idle", rule |-> <<>>, config |-> <<>>]

NotGiven == [given |-> FALSE, text |-> <<>>]

NoOpts == [rules |-> FALSE, clearRules |-> FALSE, addRule |-> NotGiven,
           dryRun |-> FALSE, clipboard |-> FALSE, yes |-> FALSE]

\* The CLI has not been started.
CliNotStarted ==
    /\ opts = NoOpts
    /\ cliPc = "off"
    /\ cliCandidates = <<>>
    /\ selected = <<>>
    /\ effects = <<>>
    /\ exitCode = 0

\* Nothing has touched the rules file and no process is inside a call.
ConfigUntouched ==
    /\ file = NoFile
    /\ calls = <<>>
    /\ proc = [p \in Procs |-> IdleProc]

MsgConnect == "Error: Could not connect to Ollama server."
MsgHttp    == "Error: Ollama returned HTTP 500."
MsgEmpty   == "Error: Failed to generate commit messages. The model returned an empty or invalid response."

NoRequest == [kind |-> "none", n |-> 0]

Init ==
    /\ pc = "idle"
    /\ hasBody \in BOOLEAN
    /\ attempt = 0
    /\ candidates = <<>>
    /\ inFlight = {}
    /\ requests = <<>>
    /\ settled = <<>>
    /\ returned = <<>>
    /\ stderr = ""
    /\ failed = NoRequest
    /\ praw = <<>>
    /\ pout = <<>>
    /\ merged = <<>>
    /\ ConfigUntouched
    /\ CliNotStarted

(***************************************************************************)
(* generateCommitMessages, one action per resumption                       *)
(***************************************************************************)

\* console.error(msg) without the process.exit(1).
Exit_onlyLogs(msg, req) ==
    /\ stderr' = msg
    /\ failed' = req
    /\ UNCHANGED <<pc, inFlight, hasBody, attempt, candidates, requests, settled,
                   returned, praw, pout, merged>>

\* process.exit(1) after console.error(msg): the process is gone, and with
\* it every pending fetch.
Exit(msg, req) ==
    /\ pc' = "exited"
    /\ stderr' = msg
    /\ failed' = req
    /\ inFlight' = {}
    /\ UNCHANGED <<hasBody, attempt, candidates, requests, settled, returned, praw, pout, merged>>

\* The shorten requests for the pool, in pool order: the synchronous part of
\* candidates.map((c) => validate...(c, model)).
RECURSIVE shortenRequests(_, _, _)
shortenRequests(pool, hb, i) ==
    IF i > Len(pool) THEN <<>>
    ELSE (IF needsRepair(pool[i], hb)
          THEN <<shortenRequest(i, subjectOf(pool[i], hb))>> ELSE <<>>)
         \o shortenRequests(pool, hb, i + 1)

\* The promise of pool member i right after the map call.
initialPromise(message, hb) ==
    IF needsRepair(message, hb)
    THEN [done |-> FALSE, value |-> message, how |-> "pending", from |-> message]
    ELSE [done |-> TRUE, value |-> message, how |-> "unchanged", from |-> message]

valuesOf(ps) == [i \in 1..Len(ps) |-> ps[i].value]

\* generateCommitMessages from the loop test, with loop variable att and
\* pool cands, up to its next await (or its end).
FromLoopTest(att, cands) ==
    IF loopCondition(att, cands)
    THEN /\ pc' = "awaitGenerate"
         /\ attempt' = att
         /\ candidates' = cands
         /\ inFlight' = {[kind |-> "generate", n |-> att]}
         /\ requests' = Append(requests, generateRequest(att, hasBody))
         /\ merged' = cands
         /\ UNCHANGED <<hasBody, settled, returned, stderr, failed, praw, pout>>
    ELSE LET \* pool: the sliced pool; ps: the promises of the map call;
             \* reqs: the requests the map call issues.
             Repair(pool, ps, reqs) ==
                 /\ attempt' = att
                 /\ candidates' = pool
                 /\ settled' = ps
                 /\ requests' = requests \o reqs
                 /\ inFlight' = {[kind |-> "shorten", n |-> reqs[k].n] : k \in 1..Len(reqs)}
                 /\ IF Len(reqs) = 0
                    THEN pc' = "returned" /\ returned' = valuesOf(ps)
                    ELSE pc' = "awaitShorten" /\ returned' = returned
                 /\ merged' = cands
                 /\ UNCHANGED <<hasBody, stderr, failed, praw, pout>>
             Sliced(pool) ==
                 IF Len(pool) = 0
                 THEN /\ attempt' = att
                      /\ pc' = "exited"
                      /\ stderr' = MsgEmpty
                      /\ inFlight' = {}
                      /\ candidates' = pool
                      /\ merged' = cands
                      /\ UNCHANGED <<hasBody, requests, settled, returned, failed, praw, pout>>
                 ELSE Repair(pool,
                             [i \in 1..Len(pool) |-> initialPromise(pool[i], hasBody)],
                             shortenRequests(pool, hasBody, 1))
         IN  Sliced(finalPool(cands))

\* The call itself: runs to the first fetch.
Call ==
    /\ pc = "idle"
    /\ FromLoopTest(0, <<>>)
    /\ UNCHANGED <<configVars, cliVars>>

\* The primary request comes back ok with response text raw.
GenerateResponds(raw) ==
    /\ pc = "awaitGenerate"
    /\ LET parsed == filterValidCommitMessages(parseResponse(raw, hasBody), hasBody)
       IN  FromLoopTest(attempt + 1, mergeCandidates(candidates, parsed))
    /\ UNCHANGED <<configVars, cliVars>>

\* fetch rejects on the primary request.
GenerateConnectFails ==
    /\ pc = "awaitGenerate"
    /\ Exit(MsgConnect, [kind |-> "generate", n |-> attempt])
    /\ UNCHANGED <<configVars, cliVars>>

\* The primary request comes back with res.ok false.
GenerateHttpError ==
    /\ pc = "awaitGenerate"
    /\ Exit(MsgHttp, [kind |-> "generate", n |-> attempt])
    /\ UNCHANGED <<configVars, cliVars>>

\* res.json() rejects on the primary request: nothing catches it and the
\* promise of generateCommitMessages rejects.
GenerateBodyUnreadable ==
    /\ pc = "awaitGenerate"
    /\ pc' = "rejected"
    /\ inFlight' = {}
    /\ UNCHANGED <<hasBody, attempt, candidates, requests, settled, returned,
                   stderr, failed, praw, pout, merged>>
    /\ UNCHANGED <<configVars, cliVars>>

\* Promise i settles with value v; Promise.all resolves, and
\* generateCommitMessages returns, once no promise is pending.
\* The list is never handed back, though every promise has settled.
Settle_neverReturns(i, v, how) ==
    /\ settled' = [settled EXCEPT ![i] = [done |-> TRUE, value |-> v, how |-> how,
                                          from |-> settled[i].from]]
    /\ inFlight' = inFlight \ {[kind |-> "shorten", n |-> i]}
    /\ UNCHANGED <<pc, returned, candidates>>
    /\ UNCHANGED <<hasBody, attempt, requests, stderr, failed, praw, pout, merged>>

Settle(i, v, how) ==
    LET ps == [settled EXCEPT ![i] = [done |-> TRUE, value |-> v, how |-> how,
                                      from |-> settled[i].from]]
        rest == inFlight \ {[kind |-> "shorten", n |-> i]}
    IN  /\ settled' = ps
        /\ inFlight' = rest
        /\ IF rest = {}
           THEN pc' = "returned" /\ returned' = valuesOf(ps) /\ candidates' = valuesOf(ps)
           ELSE UNCHANGED <<pc, returned, candidates>>
        /\ UNCHANGED <<hasBody, attempt, requests, stderr, failed, praw, pout, merged>>

\* The shorten request for pool member i comes back ok with text raw.
ShortenResponds(i, raw) ==
    /\ pc = "awaitShorten"
    /\ [kind |-> "shorten", n |-> i] \in inFlight
    /\ LET Resolve(fixed) ==
               Settle(i, withSubject(candidates[i], hasBody, fixed.value), fixed.how)
       IN  Resolve(shortenedOrTruncated(subjectOf(candidates[i], hasBody), raw))
    /\ UNCHANGED <<configVars, cliVars>>

\* res.json() rejects on a shorten request (or the body has no "response"
\* string and cleanCandidate throws): caught in validateSubjectLength.
ShortenBodyUnreadable(i) ==
    /\ pc = "awaitShorten"
    /\ [kind |-> "shorten", n |-> i] \in inFlight
    /\ Settle(i, withSubject(candidates[i], hasBody,
                             truncate(subjectOf(candidates[i], hasBody))), "truncated")
    /\ UNCHANGED <<configVars, cliVars>>

\* fetch rejects on a shorten request: callOllama ends the process.
ShortenConnectFails(i) ==
    /\ pc = "awaitShorten"
    /\ [kind |-> "shorten", n |-> i] \in inFlight
    /\ Exit(MsgConnect, [kind |-> "shorten", n |-> i])
    /\ UNCHANGED <<configVars, cliVars>>

\* A shorten request comes back with res.ok false: callOllama ends the
\* process.
ShortenHttpError(i) ==
    /\ pc = "awaitShorten"
    /\ [kind |-> "shorten", n |-> i] \in inFlight
    /\ Exit(MsgHttp, [kind |-> "shorten", n |-> i])
    /\ UNCHANGED <<configVars, cliVars>>

Next ==
    \/ Call
    \/ GenerateConnectFails
    \/ GenerateHttpError
    \/ GenerateBodyUnreadable
    \/ \E raw \in GenerateResponses : GenerateResponds(raw)
    \/ \E i \in 1..POOL_TARGET : ShortenConnectFails(i)
    \/ \E i \in 1..POOL_TARGET : ShortenHttpError(i)
    \/ \E i \in 1..POOL_TARGET : ShortenBodyUnreadable(i)
    \/ \E i \in 1..POOL_TARGET, raw \in ShortenResponses : ShortenResponds(i, raw)

Spec == Init /\ [][Next]_vars

\* The same with a backend that answers every request in the end, by a
\* response or by a failure: a step that can be taken is taken.
SpecLive == Init /\ [][Next]_vars /\ WF_vars(Next)

(***************************************************************************)
(* A bare call of parseResponse                                            *)
(***************************************************************************)

ParseAlphabet == {"a", "A", "b", "\n"}

\* a, A, b, c, d on five lines
SampleLines == <<"a","\n","A","\n","b","\n","c","\n","d">>
\* ["b","B","a",1,"c","d"]
SampleArray == <<"[","\"","b","\"",",","\"","B","\"",",","\"","a","\"",",","1",",",
                 "\"","c","\"",",","\"","d","\"","]">>
\* x, X, y, z, w as five blocks
SampleBlocks == <<"x","\n","\n","\n","\n","X","\n","\n","\n","y","\n","\n","\n",
                  "z","\n","\n","\n","w">>

\* {"x":["a"]}: an object whose only array sits under another key
SampleOtherKey == <<"{","\"","x","\"",":","[","\"","a","\"","]","}">>
\* {"messages":["a",1,"A","b"]}
SampleMessages == <<"{","\"","m","e","s","s","a","g","e","s","\"",":","[",
                    "\"","a","\"",",","1",",","\"","A","\"",",","\"","b","\"",
                    "]","}">>
\* {"messages":"a"}: the key is there, its value is not an array
SampleMessagesText == <<"{","\"","m","e","s","s","a","g","e","s","\"",":",
                        "\"","a","\"","}">>
\* [" ",1]: an array with nothing left after cleaning
SampleBlankArray == <<"[","\""," ","\"",",","1","]">>
\* prose, then a fenced json block holding ["b","a"]
SampleFenced == <<"o","k","\n",Backtick,Backtick,Backtick,"j","s","o","n",
                  "\n","[","\"","b","\"",",","\"","a","\"","]","\n",Backtick,
                  Backtick,Backtick>>

\* a line of commentary, then a line validation would refuse in single-line
\* mode
SampleCommentary == <<"H","e","r","e"," ","y","o","u"," ","g","o",":","\n",
                      "a","d","d"," ","x"," ","-"," ","y">>

\* x - y, Fix a, Add b, Add c on four lines: in single-line mode the first
\* line is refused by validation and the other three are not.
SampleInvalidFirst == <<"x"," ","-"," ","y","\n","F","i","x"," ","a","\n",
                        "A","d","d"," ","b","\n","A","d","d"," ","c">>
\* Four blocks, the first without a body: a / b,x / c,y / d,z
SampleNoBodyFirst == <<"a","\n","\n","\n","b","\n","x","\n","\n","\n",
                       "c","\n","y","\n","\n","\n","d","\n","z">>
\* ["Use (fence)x(fence)","a\nb"]: a string with fenced code in it and a
\* string of two lines
SampleFencedText == <<"[","\"","U","s","e"," ">> \o Fence \o <<"x">> \o Fence
                    \o <<"\"",",","\"","a","\\","n","b","\"","]">>

FilterSamples == {SampleInvalidFirst, SampleNoBodyFirst, SampleFencedText}

StructuredSamples ==
    {SampleOtherKey, SampleMessages, SampleMessagesText, SampleBlankArray, SampleFenced}

MaxThinkTokens == 5

\* The text tokens of a rendered input are told apart by their letter.
ThinkLetters == <<"p","q","r","s","u","v","w","y">>

ThinkTokens == {"open", "close", "text", "newline"}

\* The raw text a sequence of tokens stands for; k is the index of its first
\* token in the whole sequence.
RECURSIVE RenderThink(_, _)
RenderThink(toks, k) ==
    IF Len(toks) = 0 THEN <<>>
    ELSE (CASE toks[1] = "open"    -> ThinkOpen
            [] toks[1] = "close"   -> ThinkClose
            [] toks[1] = "text"    -> <<ThinkLetters[((k - 1) % Len(ThinkLetters)) + 1]>>
            [] toks[1] = "newline" -> <<"\n">>)
         \o RenderThink(Tail(toks), k + 1)

\* <THINK>p, a newline, q</Think>r: tags in other cases around two lines
SampleThinkUpper == <<"<","T","H","I","N","K",">","p","\n","q","<","/","T",
                      "h","i","n","k",">","r">>

ThinkInputs ==
    {RenderThink(t, 1) : t \in UNION {[1..n -> ThinkTokens] : n \in 0..MaxThinkTokens}}
    \cup {SampleThinkUpper}

ParseInputs ==
    UNION {[1..n -> ParseAlphabet] : n \in 0..MaxRawLen}
    \cup {SampleLines, SampleArray, SampleBlocks}
    \cup {SampleCommentary}
    \cup FilterSamples
    \cup StructuredSamples
    \cup ThinkInputs
    \cup GenerateResponses

InitParse ==
    /\ pc = "parse"
    /\ hasBody \in BOOLEAN
    /\ praw \in ParseInputs
    /\ pout = <<>>
    /\ merged = <<>>
    /\ attempt = 0
    /\ candidates = <<>>
    /\ inFlight = {}
    /\ requests = <<>>
    /\ settled = <<>>
    /\ returned = <<>>
    /\ stderr = ""
    /\ failed = NoRequest
    /\ ConfigUntouched
    /\ CliNotStarted

Parse ==
    /\ pc = "parse"
    /\ pc' = "parsed"
    /\ pout' = parseResponse(praw, hasBody)
    /\ UNCHANGED <<hasBody, attempt, candidates, inFlight, requests, settled,
                   returned, stderr, failed, praw, merged>>
    /\ UNCHANGED <<configVars, cliVars>>

\* What generateCommitMessages does with the parsed list of the first
\* response of a call: the valid members are pushed onto the empty pool.
MergeParsed ==
    /\ pc = "parsed"
    /\ pc' = "merged"
    /\ merged' = mergeCandidates(<<>>, filterValidCommitMessages(pout, hasBody))
    /\ UNCHANGED <<hasBody, attempt, candidates, inFlight, requests, settled,
                   returned, stderr, failed, praw, pout>>
    /\ UNCHANGED <<configVars, cliVars>>

NextParse == Parse \/ MergeParsed

SpecParse == InitParse /\ [][NextParse]_vars

(***************************************************************************)
(* cleanCandidate applied to a text and then to its own result             *)
(***************************************************************************)

MaxCleanLen == 4

\* A digit, the numbering separator, a space, a bullet or emphasis marker, a
\* quote and a letter.
CleanAlphabet == {"1", ".", " ", "*", "\"", "a"}

\* <thi<think>nk>a: a tag that is put together by removing another
SampleSplitTag == <<"<","t","h","i","<","t","h","i","n","k",">","n","k",">",
                    "a">>

CleanInputs ==
    UNION {[1..n -> CleanAlphabet] : n \in 0..MaxCleanLen} \cup {SampleSplitTag}

InitClean ==
    /\ pc = "clean"
    /\ hasBody = FALSE
    /\ praw \in CleanInputs
    /\ pout = <<>>
    /\ merged = <<>>
    /\ attempt = 0
    /\ candidates = <<>>
    /\ inFlight = {}
    /\ requests = <<>>
    /\ settled = <<>>
    /\ returned = <<>>
    /\ stderr = ""
    /\ failed = NoRequest
    /\ ConfigUntouched
    /\ CliNotStarted

\* cleanCandidate(text)
Clean ==
    /\ pc = "clean"
    /\ pc' = "cleaned"
    /\ pout' = <<cleanCandidate(praw)>>
    /\ UNCHANGED <<hasBody, attempt, candidates, inFlight, requests, settled,
                   returned, stderr, failed, praw, merged>>
    /\ UNCHANGED <<configVars, cliVars>>

\* cleanCandidate applied to the result of the first call
CleanAgain ==
    /\ pc = "cleaned"
    /\ pc' = "cleanedTwice"
    /\ pout' = Append(pout, cleanCandidate(pout[1]))
    /\ UNCHANGED <<hasBody, attempt, candidates, inFlight, requests, settled,
                   returned, stderr, failed, praw, merged>>
    /\ UNCHANGED <<configVars, cliVars>>

NextClean == Clean \/ CleanAgain

SpecClean == InitClean /\ [][NextClean]_vars

(***************************************************************************)
(* The rules file: loadConfig, saveConfig, getRules, addRule, clearRules   *)
(***************************************************************************)

RulesKey == <<"r","u","l","e","s">>

\* A rule as a member of config.rules.
ruleValue(text) == [t |-> "string", s |-> text]

\* The try block of loadConfig: readFileSync throws when there is no file,
\* JSON.parse throws on a syntax error, and parsed.rules throws when parsed
\* is null; of an object the last member named "rules" counts, and any
\* other value has no such property.
tryLoad(f) ==
    LET Rules(v) == IF v.t = "array" THEN v.a ELSE <<>>
        Member(o, idx) == IF idx = {} THEN <<>>
                          ELSE Rules(o[CHOOSE i \in idx : \A j \in idx : j <= i].v)
        Parsed(r) ==
            IF ~r.ok \/ r.v.t = "null" THEN [threw |-> TRUE]
            ELSE IF r.v.t = "object"
                 THEN [threw |-> FALSE,
                       rules |-> Member(r.v.o, {i \in 1..Len(r.v.o) : r.v.o[i].k = RulesKey})]
            ELSE [threw |-> FALSE, rules |-> <<>>]
    IN  IF ~f.exists THEN [threw |-> TRUE] ELSE Parsed(JSONparse(f.text))

\* loadConfig without its catch block.
loadConfig_noCatch(f) == tryLoad(f)

loadConfig(f) ==
    LET Catch(r) == IF r.threw THEN [threw |-> FALSE, rules |-> <<>>] ELSE r
    IN  Catch(tryLoad(f))

\* A code unit is written as it is.
EscapeUnit_asIs(c) == <<c>>

\* JSON.stringify of one code unit inside a string.
EscapeUnit(c) ==
    IF c = "\"" THEN <<"\\", "\"">>
    ELSE IF c = "\\" THEN <<"\\", "\\">>
    ELSE IF c = "\n" THEN <<"\\", "n">>
    ELSE <<c>>

RECURSIVE EscapeUnits(_)
EscapeUnits(s) ==
    IF Len(s) = 0 THEN <<>> ELSE EscapeUnit(s[1]) \o EscapeUnits(Tail(s))

\* JSON.stringify of a string.
quoteString(s) == <<"\"">> \o EscapeUnits(s) \o <<"\"">>

\* The members of a non-empty array as JSON.stringify(_, null, 2) writes
\* them at depth 2: four spaces before each, a comma and a newline between.
\* The members are strings: addRule pushes strings, and no file the model
\* starts from holds an array.
RECURSIVE stringifyMembers(_)
stringifyMembers(rules) ==
    <<" "," "," "," ">> \o quoteString(rules[1].s)
    \o (IF Len(rules) = 1 THEN <<"\n">>
        ELSE <<",","\n">> \o stringifyMembers(Tail(rules)))

\* JSON.stringify(config, null, 2) + "\n"
stringifyConfig(config) ==
    <<"{","\n"," "," ">> \o quoteString(RulesKey) \o <<":"," ">>
    \o (IF Len(config.rules) = 0 THEN <<"[","]">>
        ELSE <<"[","\n">> \o stringifyMembers(config.rules) \o <<" "," ","]">>)
    \o <<"\n","}","\n">>

\* The file after saveConfig(path, config).
saveConfig(config) == [exists |-> TRUE, text |-> stringifyConfig(config)]

MaxCalls == 5

\* a; b followed by a quote; a backslash followed by n
RuleTexts == {<<"a">>, <<"b","\"">>, <<"\\","n">>}

\* not valid JSON
FileMalformed == [exists |-> TRUE, text |-> <<"n","o","t"," ","j","s","o","n","{","{","{">>]
\* {"rules":"x"}
FileRulesText ==
    [exists |-> TRUE, text |-> <<"{">> \o quoteString(RulesKey) \o <<":","\"","x","\"","}">>]
\* null
FileNull == [exists |-> TRUE, text |-> <<"n","u","l","l">>]

InitialFiles == {NoFile, FileMalformed, FileRulesText, FileNull}

InitRules ==
    /\ pc = "idle"
    /\ hasBody = FALSE
    /\ attempt = 0
    /\ candidates = <<>>
    /\ inFlight = {}
    /\ requests = <<>>
    /\ settled = <<>>
    /\ returned = <<>>
    /\ stderr = ""
    /\ failed = NoRequest
    /\ praw = <<>>
    /\ pout = <<>>
    /\ merged = <<>>
    /\ file \in InitialFiles
    /\ calls = <<>>
    /\ proc = [p \in Procs |-> IdleProc]
    /\ CliNotStarted

\* Process p can begin a call: it is not inside one.
CanCall(p) == proc[p].pc = "idle" /\ Len(calls) < MaxCalls

\* No other process is inside a call.
Alone(p) == \A q \in Procs \ {p} : proc[q].pc = "idle"

Finished(entry) == calls' = Append(calls, entry)

\* getRules() in process p.
GetRules(p) ==
    /\ CanCall(p)
    /\ LET Return(config) ==
               Finished([fn |-> "getRules", rule |-> <<>>, threw |-> config.threw,
                         caught |-> tryLoad(file).threw /\ ~config.threw,
                         result |-> IF config.threw THEN <<>> ELSE config.rules])
       IN  Return(loadConfig(file))
    /\ UNCHANGED <<file, proc>>
    /\ UNCHANGED <<ollamaVars, cliVars>>

\* addRule(rule) in process p up to the return of loadConfig.
AddRuleLoad(p, rule) ==
    /\ CanCall(p)
    /\ LET Loaded(config) ==
               IF config.threw
               THEN /\ Finished([fn |-> "addRule", rule |-> rule, threw |-> TRUE,
                                 caught |-> FALSE, result |-> <<>>])
                    /\ proc' = proc
               ELSE /\ proc' = [proc EXCEPT ![p] = [pc |-> "loaded", rule |-> rule,
                                                    config |-> config.rules]]
                    /\ calls' = calls
       IN  Loaded(loadConfig(file))
    /\ UNCHANGED file
    /\ UNCHANGED <<ollamaVars, cliVars>>

\* The rest of addRule in process p: config.rules.push(rule) and saveConfig.
AddRuleSave(p) ==
    /\ proc[p].pc = "loaded"
    /\ file' = saveConfig([rules |-> Append(proc[p].config, ruleValue(proc[p].rule))])
    /\ Finished([fn |-> "addRule", rule |-> proc[p].rule, threw |-> FALSE,
                 caught |-> FALSE, result |-> <<>>])
    /\ proc' = [proc EXCEPT ![p] = IdleProc]
    /\ UNCHANGED <<ollamaVars, cliVars>>

\* clearRules() in process p: unlinkSync throws when there is no file, and
\* the catch block swallows it.
ClearRules(p) ==
    /\ CanCall(p)
    /\ file' = NoFile
    /\ Finished([fn |-> "clearRules", rule |-> <<>>, threw |-> FALSE,
                 caught |-> ~file.exists, result |-> <<>>])
    /\ UNCHANGED proc
    /\ UNCHANGED <<ollamaVars, cliVars>>

\* The calls run one after another, each in either process.
NextRules ==
    \/ \E p \in Procs : Alone(p) /\ GetRules(p)
    \/ \E p \in Procs : \E rule \in RuleTexts : Alone(p) /\ AddRuleLoad(p, rule)
    \/ \E p \in Procs : AddRuleSave(p)
    \/ \E p \in Procs : Alone(p) /\ ClearRules(p)

SpecRules == InitRules /\ [][NextRules]_vars

\* MaxConcurrentCalls: how many calls are begun when the processes run at
\* once.
\* Two invocations of the program at once (two processes on the one rules
\* file): a call of one may begin, and its steps may be taken, while the
\* other is between its loadConfig and its saveConfig.
MaxConcurrentCalls == 3

NextRulesConcurrent ==
    \/ \E p \in Procs : Len(calls) < MaxConcurrentCalls /\ GetRules(p)
    \/ \E p \in Procs : \E rule \in RuleTexts :
          Len(calls) < MaxConcurrentCalls /\ AddRuleLoad(p, rule)
    \/ \E p \in Procs : AddRuleSave(p)

SpecRulesConcurrent == InitRules /\ [][NextRulesConcurrent]_vars

(***************************************************************************)
(* The command line: program.action                                        *)
(***************************************************************************)

\* The decimal digits, for the line count of formatForDisplay (below ten).
DigitChars == <<"1","2","3","4","5","6","7","8","9">>

\* lines.slice(1).filter((l) => l.trim().length > 0).length
RECURSIVE countNonBlank(_)
countNonBlank(lines) ==
    IF Len(lines) = 0 THEN 0
    ELSE (IF Len(trim(lines[1])) > 0 THEN 1 ELSE 0) + countNonBlank(Tail(lines))

formatForDisplay(message) ==
    LET Shown(subject, n) ==
            IF n = 0 THEN subject
            ELSE subject \o <<" ","(","+", DigitChars[n], " ","l","i","n","e">>
                 \o (IF n > 1 THEN <<"s">> ELSE <<>>) \o <<")">>
        Of(lines) == IF Len(lines) = 1 THEN message
                     ELSE Shown(lines[1], countNonBlank(Tail(lines)))
    IN  Of(split(message, "\n"))

\* One thing done to the outside: a command run or a function of another
\* module called (what), a line written (line, with the message in text
\* when the line holds one), and whether it succeeded.
Ran(what) == [what |-> what, line |-> "", text |-> <<>>, ok |-> TRUE]
Log(line, text) == [what |-> "console.log", line |-> line, text |-> text, ok |-> TRUE]
Err(line) == [what |-> "console.error", line |-> line, text |-> <<>>, ok |-> TRUE]
Copy(text, copied) == [what |-> "copyToClipboard", line |-> "", text |-> text, ok |-> copied]
Commit(text, done) == [what |-> "commit", line |-> "", text |-> text, ok |-> done]

\* The --clipboard branch does not return after copying and goes on to the
\* commit.
output_commitsAfterCopy(o, message, copied, committed) ==
    IF o.dryRun
    THEN [effects |-> <<Log("selected", message)>>, exitCode |-> 0]
    ELSE [effects |-> (IF o.clipboard THEN <<Copy(message, copied)>> ELSE <<>>)
                      \o <<Commit(message, committed)>>,
          exitCode |-> 0]

\* The end of program.action from "Handle output based on flags" on:
\* what it does and the exit code. copied: copyToClipboard returns true;
\* committed: git commit succeeds.
output(o, message, copied, committed) ==
    IF o.dryRun /\ o.clipboard
    THEN [effects |-> <<Log("selected", message), Copy(message, copied),
                        IF copied THEN Log("Copied to clipboard.", <<>>)
                        ELSE Err("Could not copy to clipboard.")>>,
          exitCode |-> 0]
    ELSE IF o.dryRun
    THEN [effects |-> <<Log("selected", message)>>, exitCode |-> 0]
    ELSE IF o.clipboard
    THEN [effects |-> <<Copy(message, copied),
                        IF copied THEN Log("Copied to clipboard.", <<>>)
                        ELSE Err("Could not copy to clipboard.")>>,
          exitCode |-> IF copied THEN 0 ELSE 1]
    ELSE [effects |-> <<Commit(message, committed)>>
                      \o (IF committed THEN <<Log("git output", <<>>)>>
                          ELSE <<Err("Failed to create commit:"), Err("git error")>>),
          exitCode |-> IF committed THEN 0 ELSE 1]

\* JavaScript truthiness of opts.addRule: given and not the empty string.
addRuleGiven(o) == o.addRule.given /\ Len(o.addRule.text) > 0

FixAMessage == <<"F","i","x"," ","a">>

\* A single-line message and a subject with a two-line body.
CliMessages ==
    {FixAMessage, <<"A","d","d"," ","b","\n","\n","-"," ","d","\n","-"," ","e">>}

\* The lists generateCommitMessages resolves with: one to three messages.
CliCandidateLists ==
    {c \in UNION {[1..n -> CliMessages \cup {<<"U","s","e"," ","c">>}] : n \in 1..POOL_TARGET} :
        \A i, j \in 1..Len(c) : i < j => c[i] # c[j]}

AddRuleOptions == {NotGiven, [given |-> TRUE, text |-> <<>>], [given |-> TRUE, text |-> <<"a">>]}

InitCli ==
    /\ pc = "idle"
    /\ hasBody = FALSE
    /\ attempt = 0
    /\ candidates = <<>>
    /\ inFlight = {}
    /\ requests = <<>>
    /\ settled = <<>>
    /\ returned = <<>>
    /\ stderr = ""
    /\ failed = NoRequest
    /\ praw = <<>>
    /\ pout = <<>>
    /\ merged = <<>>
    /\ file \in {NoFile, saveConfig([rules |-> <<ruleValue(<<"a">>)>>])}
    /\ calls = <<>>
    /\ proc = [p \in Procs |-> IdleProc]
    /\ opts \in [rules : BOOLEAN, clearRules : BOOLEAN, addRule : AddRuleOptions,
                 dryRun : BOOLEAN, clipboard : BOOLEAN, yes : BOOLEAN]
    /\ cliPc = "start"
    /\ cliCandidates = <<>>
    /\ selected = <<>>
    /\ effects = <<>>
    /\ exitCode = 0

\* The process ends with exit code code after doing what is in done.
CliEnds(done, code) ==
    /\ effects' = effects \o done
    /\ cliPc' = "done"
    /\ exitCode' = code

\* --rules: print the saved rules and return.
CliRules ==
    /\ cliPc = "start"
    /\ opts.rules
    /\ CliEnds(<<Ran("getRules"),
                 IF Len(loadConfig(file).rules) = 0
                 THEN Log("No rules saved.", <<>>) ELSE Log("Saved rules:", <<>>)>>, 0)
    /\ UNCHANGED <<opts, cliCandidates, selected>>
    /\ UNCHANGED <<ollamaVars, configVars>>

\* --clear-rules: delete the rules file and return.
CliClearRules ==
    /\ cliPc = "start"
    /\ ~opts.rules /\ opts.clearRules
    /\ file' = NoFile
    /\ CliEnds(<<Ran("clearRules"), Log("All rules cleared.", <<>>)>>, 0)
    /\ UNCHANGED <<opts, cliCandidates, selected>>
    /\ UNCHANGED <<ollamaVars, calls, proc>>

\* --add-rule <text>: add the rule and return.
CliAddRule ==
    /\ cliPc = "start"
    /\ ~opts.rules /\ ~opts.clearRules /\ addRuleGiven(opts)
    /\ file' = saveConfig([rules |-> Append(loadConfig(file).rules,
                                            ruleValue(opts.addRule.text))])
    /\ CliEnds(<<Ran("addRule"), Log("Rule added:", opts.addRule.text)>>, 0)
    /\ UNCHANGED <<opts, cliCandidates, selected>>
    /\ UNCHANGED <<ollamaVars, calls, proc>>

MainFlow == cliPc = "start" /\ ~opts.rules /\ ~opts.clearRules /\ ~addRuleGiven(opts)

\* getStagedDiff throws: nothing is staged (or git diff fails).
CliNothingStaged ==
    /\ MainFlow
    /\ CliEnds(<<[Ran("getStagedDiff") EXCEPT !.ok = FALSE],
                 Err("No staged changes found.")>>, 1)
    /\ UNCHANGED <<opts, cliCandidates, selected>>
    /\ UNCHANGED <<ollamaVars, configVars>>

\* checkOllama does not find the ollama binary.
CliOllamaMissing ==
    /\ MainFlow
    /\ CliEnds(<<Ran("getStagedDiff"), [Ran("which ollama") EXCEPT !.ok = FALSE],
                 Err("Error: Ollama is not installed.")>>, 1)
    /\ UNCHANGED <<opts, cliCandidates, selected>>
    /\ UNCHANGED <<ollamaVars, configVars>>

\* checkOllama is called before getStagedDiff.
CliChecksServer_ollamaFirst ==
    /\ MainFlow
    /\ effects' = effects \o <<Ran("which ollama"), Ran("fetch /api/tags"), Ran("getStagedDiff")>>
    /\ cliPc' = "checkOllama"
    /\ UNCHANGED <<opts, cliCandidates, selected, exitCode>>
    /\ UNCHANGED <<ollamaVars, configVars>>

\* The main flow up to the fetch of checkOllama.
CliChecksServer ==
    /\ MainFlow
    /\ effects' = effects \o <<Ran("getStagedDiff"), Ran("which ollama"), Ran("fetch /api/tags")>>
    /\ cliPc' = "checkOllama"
    /\ UNCHANGED <<opts, cliCandidates, selected, exitCode>>
    /\ UNCHANGED <<ollamaVars, configVars>>

\* The fetch of checkOllama rejects or is not ok.
CliServerDown ==
    /\ cliPc = "checkOllama"
    /\ CliEnds(<<Err("Error: Ollama server is not running.")>>, 1)
    /\ UNCHANGED <<opts, cliCandidates, selected>>
    /\ UNCHANGED <<ollamaVars, configVars>>

\* checkOllama returns: the prompts are built and generateCommitMessages is
\* called.
CliGenerates ==
    /\ cliPc = "checkOllama"
    /\ effects' = effects \o <<Ran("getRules"), Ran("getStagedStat"),
                               Log("Using model:", <<>>),
                               Log("Generating commit messages...", <<>>),
                               Ran("generateCommitMessages")>>
    /\ cliPc' = "generating"
    /\ UNCHANGED <<opts, cliCandidates, selected, exitCode>>
    /\ UNCHANGED <<ollamaVars, configVars>>

\* generateCommitMessages ends the process.
CliGenerateExits ==
    /\ cliPc = "generating"
    /\ CliEnds(<<Err("Error: generateCommitMessages")>>, 1)
    /\ UNCHANGED <<opts, cliCandidates, selected>>
    /\ UNCHANGED <<ollamaVars, configVars>>

\* generateCommitMessages resolves with cands and --yes is set: the first
\* candidate is selected and the output follows at once.
CliAutoSelects(cands, copied, committed) ==
    /\ cliPc = "generating"
    /\ opts.yes
    /\ cliCandidates' = cands
    /\ selected' = <<cands[1]>>
    /\ LET Then(out) ==
               CliEnds(<<Log("Auto-selected:", formatForDisplay(cands[1]))>> \o out.effects,
                       out.exitCode)
       IN  Then(output(opts, cands[1], copied, committed))
    /\ UNCHANGED opts
    /\ UNCHANGED <<ollamaVars, configVars>>

\* generateCommitMessages resolves with cands and --yes is not set: the
\* prompt is shown.
CliPrompts(cands) ==
    /\ cliPc = "generating"
    /\ ~opts.yes
    /\ cliCandidates' = cands
    /\ effects' = Append(effects, Ran("select"))
    /\ cliPc' = "selecting"
    /\ UNCHANGED <<opts, selected, exitCode>>
    /\ UNCHANGED <<ollamaVars, configVars>>

\* The user picks candidate i in the prompt.
CliSelected(i, copied, committed) ==
    /\ cliPc = "selecting"
    /\ i \in 1..Len(cliCandidates)
    /\ selected' = <<cliCandidates[i]>>
    /\ LET Then(out) == CliEnds(<<Log("", <<>>)>> \o out.effects, out.exitCode)
       IN  Then(output(opts, cliCandidates[i], copied, committed))
    /\ UNCHANGED <<opts, cliCandidates>>
    /\ UNCHANGED <<ollamaVars, configVars>>

\* The user leaves the prompt: select rejects and nothing handles it.
CliPromptAborted ==
    /\ cliPc = "selecting"
    /\ CliEnds(<<>>, 1)
    /\ UNCHANGED <<opts, cliCandidates, selected>>
    /\ UNCHANGED <<ollamaVars, configVars>>

NextCli ==
    \/ CliRules
    \/ CliClearRules
    \/ CliAddRule
    \/ CliNothingStaged
    \/ CliOllamaMissing
    \/ CliChecksServer
    \/ CliServerDown
    \/ CliGenerates
    \/ CliGenerateExits
    \/ \E cands \in CliCandidateLists : \E copied, committed \in BOOLEAN :
          CliAutoSelects(cands, copied, committed)
    \/ \E cands \in CliCandidateLists : CliPrompts(cands)
    \/ \E i \in 1..POOL_TARGET : \E copied, committed \in BOOLEAN :
          CliSelected(i, copied, committed)
    \/ CliPromptAborted

SpecCli == InitCli /\ [][NextCli]_vars

(***************************************************************************)
(* Properties                                                              *)
(***************************************************************************)

generateCount == Cardinality({k \in 1..Len(requests) : requests[k].kind = "generate"})
shortenCount  == Cardinality({k \in 1..Len(requests) : requests[k].kind = "shorten"})

firstLine(s) == split(s, "\n")[1]

DistinctIgnoringCase(xs) ==
    \A i, j \in 1..Len(xs) : i # j => toLowerCase(xs[i]) # toLowerCase(xs[j])

FixA  == <<"F","i","x"," ","a">>
fixA  == <<"f","i","x"," ","a">>

\* C1: whenever generateCommitMessages returns, the returned list has at
\* least 1 and at most 3 members, in both output modes.
C1_ReturnedOneToThree ==
    pc = "returned" => Len(returned) >= 1 /\ Len(returned) <= 3

\* A return in single-line mode after the pool had grown to four members
\* (two from the first response, two more from the second).
C1_Witness ==
    /\ pc = "returned"
    /\ ~hasBody
    /\ generateCount = 2
    /\ returned = <<FixA, <<"d">>, fixA>>

\* C2: the returned list never contains two members that are equal under
\* case-insensitive comparison.
C2_ReturnedDistinctIgnoringCase ==
    pc = "returned" => DistinctIgnoringCase(returned)

\* C3: every returned string has a first line of at most 72 code units, in
\* both modes and however the shorten request ended; a line that fell back to
\* truncation is exactly its first 69 code units followed by three dots.
C3_FirstLineWithinLimit ==
    pc = "returned" =>
        \A i \in 1..Len(returned) :
            /\ Len(firstLine(returned[i])) <= 72
            /\ settled[i].how = "truncated" =>
                  /\ firstLine(returned[i])
                        = SubSeq(subjectOf(settled[i].from, hasBody), 1, 69) \o <<".", ".", ".">>
                  /\ Len(firstLine(returned[i])) = 72

\* A return in subject+body mode where one over-length subject was shortened
\* by the model and another was truncated.
C3_Witness ==
    /\ pc = "returned"
    /\ hasBody
    /\ \E i, j \in 1..Len(returned) :
          settled[i].how = "shortened" /\ settled[j].how = "truncated"

\* C4: parseResponse returns at most 3 members, pairwise distinct ignoring
\* case: the first occurrence of each distinct (ignoring case) cleaned
\* candidate, with its own casing, in order of first occurrence, cut after
\* the third.
C4_ParseFirstSeenWins ==
    pc = "parsed" =>
        LET \* rc: the cleaned candidates in order; firsts: the indices of
            \* those not preceded by an equal one (ignoring case).
            FirstSeen(rc, firsts) ==
                /\ Len(pout) <= 3
                /\ DistinctIgnoringCase(pout)
                /\ Len(pout) = (IF Cardinality(firsts) < 3 THEN Cardinality(firsts) ELSE 3)
                /\ \A k \in 1..Len(pout) :
                      \E i \in firsts :
                          /\ Cardinality({j \in firsts : j < i}) = k - 1
                          /\ pout[k] = rc[i]
            Candidates(rc) ==
                FirstSeen(rc, {i \in 1..Len(rc) :
                                  \A j \in 1..(i - 1) : toLowerCase(rc[j]) # toLowerCase(rc[i])})
        IN  Candidates(rawCandidates(praw, hasBody))

\* parseResponse applied to the lines a, A, b, c, d: the duplicate A is
\* dropped and the fourth distinct candidate d is cut.
C4_Witness ==
    /\ pc = "parsed"
    /\ praw = SampleLines
    /\ pout = << <<"a">>, <<"b">>, <<"c">> >>

\* C5: at most 3 primary requests are issued, a primary request is only ever
\* outstanding while the pool holds fewer than 3 candidates, and no primary
\* request is issued once the pool has reached 3 members.
C5_AttemptBudget ==
    /\ [](/\ generateCount <= 3
          /\ pc = "awaitGenerate" => Len(candidates) < 3)
    /\ [][Len(candidates) >= 3 => generateCount' = generateCount]_vars

\* The loop ends after one attempt because that attempt filled the pool.
C5_Witness ==
    /\ generateCount = 1
    /\ pc \in {"returned", "awaitShorten"}
    /\ Len(candidates) = 3

\* C6: the k-th request of an invocation that is a primary request is
\* attempt k-1, with temperature 0.2 + (k-1)*0.2, 300 or 400 tokens by
\* mode and repetition penalty 1.1; temperatures strictly increase.
C6_TemperatureSchedule ==
    \A k \in 1..Len(requests) :
        requests[k].kind = "generate" =>
            /\ requests[k].n = k - 1
            /\ requests[k].temperature = 2 + (k - 1) * 2
            /\ requests[k].num_predict = (IF hasBody THEN 400 ELSE 300)
            /\ requests[k].repeat_penalty = 11
            /\ \A j \in 1..(k - 1) :
                  /\ requests[j].kind = "generate"
                  /\ requests[j].temperature < requests[k].temperature

\* All three attempts have been issued in subject+body mode.
C6_Witness ==
    /\ hasBody
    /\ generateCount = 3
    /\ requests[3].temperature = 6

\* C7: when the pool is still empty after the third attempt the invocation
\* ends with the "empty or invalid response" error after exactly 3 primary
\* requests, no shorten request and no returned list; and that error, the
\* only fatal end without a transport failure, occurs in no other case.
C7_EmptyPoolFatal ==
    /\ (attempt = 3 /\ Len(candidates) = 0) =>
          /\ pc = "exited"
          /\ stderr = MsgEmpty
          /\ generateCount = 3
          /\ shortenCount = 0
          /\ inFlight = {}
          /\ returned = <<>>
    /\ stderr = MsgEmpty => attempt = 3 /\ Len(candidates) = 0 /\ failed = NoRequest
    /\ (pc = "exited" /\ failed = NoRequest) => stderr = MsgEmpty

\* Three responses without a valid candidate, then the fatal end.
C7_Witness ==
    /\ pc = "exited"
    /\ stderr = MsgEmpty
    /\ generateCount = 3

\* C8: a transport failure of a primary request ends the invocation at once:
\* that request is the last one issued, nothing is returned, nothing runs
\* afterwards, and the message is not the empty-pool message.
C8_PrimaryTransportFatal ==
    /\ [](failed.kind = "generate" =>
            /\ pc = "exited"
            /\ stderr \in {MsgConnect, MsgHttp}
            /\ stderr # MsgEmpty
            /\ returned = <<>>
            /\ inFlight = {}
            /\ shortenCount = 0
            /\ generateCount = failed.n + 1
            /\ requests[Len(requests)].kind = "generate"
            /\ requests[Len(requests)].n = failed.n)
    /\ [][pc # "exited"]_vars

\* The second attempt fails at the transport while the pool already holds a
\* candidate of the first.
C8_Witness ==
    /\ failed = [kind |-> "generate", n |-> 1]
    /\ Len(candidates) > 0
    /\ pc = "exited"

\* C9: a transport failure of a shorten request is not propagated: the
\* invocation does not end fatally, the line is replaced by its truncation,
\* and the list is still returned.
C9_ShortenFailureAbsorbed ==
    failed.kind = "shorten" =>
        /\ pc \in {"awaitShorten", "returned"}
        /\ settled[failed.n].how = "truncated"
        /\ stderr = ""

\* C10 as stated: at most one backend request is in flight at any time.
C10_AtMostOneInFlight == Cardinality(inFlight) <= 1

\* C10 amended: at most one primary request is in flight, and never together
\* with a shorten request; the shorten requests are issued together, in pool
\* order, one for each over-length member of the final pool, so up to 3 of
\* them are in flight at once.
C10_InFlightDiscipline ==
    /\ \A r \in inFlight : r.kind = "generate" => inFlight = {r}
    /\ Cardinality(inFlight) <= 3
    /\ \A r \in inFlight :
          r.kind = "shorten" =>
              /\ pc = "awaitShorten"
              /\ r.n \in 1..Len(candidates)
              /\ Len(firstLine(candidates[r.n])) > 72
    /\ \A j, k \in 1..Len(requests) :
          (j < k /\ requests[k].kind = "shorten") =>
              \/ requests[j].kind = "generate"
              \/ requests[j].n < requests[k].n

\* Two shorten requests are in flight at the same time.
C10_Witness ==
    /\ pc = "awaitShorten"
    /\ Cardinality(inFlight) >= 2

\* C11: no shorten request is issued before the last primary attempt has
\* returned and no primary request is issued after a shorten request: in the
\* request log every primary request precedes every shorten request, the
\* shorten requests are all issued in the one step in which the last primary
\* response is handled, and each of them carries the measured line of the
\* member at its index of the final pool (at most 3 members, the pool so far
\* being its prefix).
C11_RepairAfterAllAttempts ==
    /\ [](/\ \A j, k \in 1..Len(requests) :
                (j < k /\ requests[j].kind = "shorten") => requests[k].kind = "shorten"
          /\ shortenCount > 0 =>
                /\ \A r \in inFlight : r.kind = "shorten"
                /\ pc \in {"awaitShorten", "returned", "exited"}
                /\ Len(settled) = Len(candidates)
                /\ Len(candidates) <= 3
                /\ \A k \in 1..Len(requests) :
                      requests[k].kind = "shorten" =>
                          /\ requests[k].n \in 1..Len(settled)
                          /\ requests[k].text =
                                (IF hasBody THEN firstLine(settled[requests[k].n].from)
                                 ELSE settled[requests[k].n].from))
    /\ [][shortenCount' > shortenCount =>
              /\ shortenCount = 0
              /\ pc = "awaitGenerate"
              /\ inFlight = {[kind |-> "generate", n |-> attempt]}
              /\ generateCount' = generateCount
              /\ Len(candidates) <= Len(candidates')
              /\ SubSeq(candidates', 1, Len(candidates)) = candidates]_vars
    /\ [][generateCount' > generateCount => shortenCount' = 0]_vars

\* Shorten requests issued in subject+body mode after the second attempt.
C11_Witness ==
    /\ hasBody
    /\ generateCount = 2
    /\ shortenCount = 2
    /\ pc = "awaitShorten"

includesNewline(s) == \E k \in 1..Len(s) : s[k] = "\n"

\* C12: in single-line mode no returned string contains a newline, the
\* strings substituted by the length-repair pass included.
C12_SingleLineNoNewline ==
    (pc = "returned" /\ ~hasBody) =>
        \A i \in 1..Len(returned) : ~includesNewline(returned[i])

\* C13: no returned string contains a code-fence marker, in either mode, the
\* strings substituted by the length-repair pass included.
C13_ReturnedNoFence ==
    pc = "returned" =>
        \A i \in 1..Len(returned) : ~includesFence(returned[i])

\* The array a text stands for when it parses as a JSON array, or as a JSON
\* object with an array under the key named by key ("" for any key; the last
\* member of that name counts); [found |-> FALSE] otherwise.
jsonList(text, key) ==
    LET Under(o, idx) ==
            IF idx = {} THEN [found |-> FALSE]
            ELSE [found |-> TRUE, list |-> o[CHOOSE i \in idx : \A j \in idx : j <= i].v.a]
        Named(o, idx) ==
            Under(o, {i \in idx : o[i].v.t = "array" /\ \A j \in idx : j <= i})
        Of(r) == IF ~r.ok THEN [found |-> FALSE]
                 ELSE IF r.v.t = "array" THEN [found |-> TRUE, list |-> r.v.a]
                 ELSE IF r.v.t = "object"
                      THEN IF key = <<>>
                           THEN Under(r.v.o, {i \in 1..Len(r.v.o) : r.v.o[i].v.t = "array"})
                           ELSE Named(r.v.o, {i \in 1..Len(r.v.o) : r.v.o[i].k = key})
                 ELSE [found |-> FALSE]
    IN  Of(JSONparse(trim(text)))

\* What parseResponse returns for praw when the structured list is the one
\* jsonList finds under key, in the whole text first and then in the first
\* fenced block, and the text is split only when neither has one.
StructuredFirst(key) ==
    LET Normal(list) == slice(dedupeCandidates(cleanAll(list)), 3)
        Plain(cleaned) == Normal(IF hasBody THEN splitBlankRuns(cleaned)
                                 ELSE split(cleaned, "\n"))
        InFence(cleaned, inner) ==
            IF inner.found THEN Normal(stringElements(inner.list)) ELSE Plain(cleaned)
        Fenced(cleaned, fenced) ==
            IF fenced.found /\ Len(fenced.text) > 0
            THEN InFence(cleaned, jsonList(fenced.text, key))
            ELSE Plain(cleaned)
        Whole(cleaned, whole) ==
            IF whole.found THEN Normal(stringElements(whole.list))
            ELSE Fenced(cleaned, fencedBlock(cleaned))
        Holds(cleaned) ==
            IF Len(cleaned) = 0 THEN <<>> ELSE Whole(cleaned, jsonList(cleaned, key))
    IN  Holds(trim(stripThinkBlocks(praw)))

\* C14 (as stated): structured extraction is tried first and a usable list
\* keeps the text from being split, even when nothing of the list is left
\* after cleaning; the text is usable when it, or the content of a fenced
\* block inside it, parses as a JSON array or as a JSON object with some key
\* whose value is an array; only the string elements become candidates.
C14_AnyKeyUsable == pc = "parsed" => pout = StructuredFirst(<<>>)

\* C14 (amended): as above, but of a JSON object only the array under the key
\* "messages" is taken; an object with an array under any other key is not
\* structured output and the text is split as plain text.
C14_MessagesKeyUsable == pc = "parsed" => pout = StructuredFirst(MessagesKey)

\* The array [" ",1] has nothing left after cleaning: the result is empty,
\* where splitting the same text would have kept it as one candidate.
C14_Witness ==
    /\ pc = "parsed"
    /\ praw = SampleBlankArray
    /\ pout = <<>>
    /\ merged = <<>>
    /\ cleanAll(split(praw, "\n")) # <<>>

\* The pairs <<i, j>> of an opening tag at i and its closing tag at j in s.
\* With nested = FALSE an opening tag goes with the first closing tag after
\* it; with nested = TRUE the tags are matched as brackets.
ThinkPairs(s, nested) ==
    LET Of(opens, closes) ==
            LET depth(i, m) == Cardinality({o \in opens : i <= o /\ o <= m})
                               - Cardinality({c \in closes : i <= c /\ c <= m})
            IN  {pr \in opens \X closes :
                    /\ pr[1] < pr[2]
                    /\ IF nested
                       THEN /\ depth(pr[1], pr[2]) = 0
                            /\ \A m \in pr[1]..(pr[2] - 1) : depth(pr[1], m) >= 1
                       ELSE \A c \in closes : ~(pr[1] < c /\ c < pr[2])}
    IN  Of({q \in 1..Len(s) : MatchAt(s, q, ThinkOpen)},
           {q \in 1..Len(s) : MatchAt(s, q, ThinkClose)})

\* (1) a code unit that occurs once in the input, and there between the tags
\* of a pair, occurs in no returned candidate; (2) an input in which every
\* code unit is white space or belongs to a pair (tags included) gives the
\* empty list.
ThinkBlocksRemoved(nested) ==
    LET Holds(pairs) ==
            /\ \A p \in 1..Len(praw) :
                  (/\ Cardinality({q \in 1..Len(praw) : praw[q] = praw[p]}) = 1
                   /\ \E pr \in pairs : pr[1] + Len(ThinkOpen) <= p /\ p < pr[2])
                  => \A n \in 1..Len(pout) : praw[p] \notin Range(pout[n])
            /\ (\A p \in 1..Len(praw) :
                   \/ IsSpace(praw[p])
                   \/ \E pr \in pairs : pr[1] <= p /\ p < pr[2] + Len(ThinkClose))
               => pout = <<>>
    IN  pc = "parsed" => Holds(ThinkPairs(praw, nested))

\* C15 (as stated): parseResponse removes every paired <think>...</think>
\* block, in any case and over several lines, before parsing or splitting: no
\* text from inside a balanced block is in a returned candidate, and an input
\* of only reasoning blocks and white space gives the empty list.
C15_BalancedBlocksRemoved == ThinkBlocksRemoved(TRUE)

\* C15 (amended): the same with every opening tag paired with the first
\* closing tag after it; when blocks are nested, the text between the inner
\* and the outer closing tag is kept.
C15_FirstCloseBlocksRemoved == ThinkBlocksRemoved(FALSE)

\* The block in upper and mixed case over two lines is removed and what
\* follows it is the only candidate.
C15_Witness ==
    /\ pc = "parsed"
    /\ praw = SampleThinkUpper
    /\ pout = << <<"r">> >>

\* C16: cleaning is idempotent: for every text, cleanCandidate applied to the
\* result of cleanCandidate returns it unchanged.
C16_CleanIdempotent == pc = "cleanedTwice" => pout[2] = pout[1]

\* The raw candidates of praw before cleaning: the string elements of the
\* structured list, or else the lines or blocks of the text.
rawPieces ==
    LET Pieces(cleaned, structured) ==
            IF structured.found THEN structured.list
            ELSE IF hasBody THEN splitBlankRuns(cleaned)
            ELSE split(cleaned, "\n")
        Of(cleaned) == IF Len(cleaned) = 0 THEN <<>>
                       ELSE Pieces(cleaned, parseStructuredResponse(cleaned))
    IN  Of(trim(stripThinkBlocks(praw)))

\* C17: parseResponse rejects a raw line or block only when it is empty after
\* cleaning: a raw candidate with a non-empty cleaned form is in the output
\* unless an earlier one equals it ignoring case or three distinct ones
\* precede it.
C17_OnlyEmptyRejected ==
    pc = "parsed" =>
        LET Holds(cleaned) ==
                \A i \in 1..Len(cleaned) :
                    Len(cleaned[i]) > 0 =>
                        \/ cleaned[i] \in Range(pout)
                        \/ \E j \in 1..(i - 1) :
                              toLowerCase(cleaned[j]) = toLowerCase(cleaned[i])
                        \/ Cardinality({toLowerCase(cleaned[j]) : j \in 1..(i - 1)}
                                       \ {<<>>}) >= 3
        IN  Holds([i \in 1..Len(rawPieces) |-> cleanCandidate(rawPieces[i])])

\* A line of commentary and a line that isValidCommitMessage refuses in
\* single-line mode are both returned.
C17_Witness ==
    /\ pc = "parsed"
    /\ ~hasBody
    /\ praw = SampleCommentary
    /\ Len(pout) = 2
    /\ pout[1] = SubSeq(SampleCommentary, 1, 12)
    /\ ~isValidCommitMessage(pout[2], FALSE)

\* The rules added by the calls of log after its last clearRules, in order.
RECURSIVE addedSince(_)
addedSince(log) ==
    LET Before(last, rest) ==
            IF last.fn = "clearRules" THEN <<>>
            ELSE IF last.fn = "addRule" /\ ~last.threw
                 THEN Append(addedSince(rest), ruleValue(last.rule))
            ELSE addedSince(rest)
    IN  IF Len(log) = 0 THEN <<>>
        ELSE Before(log[Len(log)], SubSeq(log, 1, Len(log) - 1))

\* C18: with addRule and clearRules calls run one after another on the same
\* rules file (in one process or in several), getRules returns exactly the
\* rules added since the last clearRules, or since the start, in the order
\* they were added; no call fails, and clearRules on a missing file does
\* nothing.
C18_RulesSinceLastClear ==
    /\ [](/\ \A k \in 1..Len(calls) :
                /\ ~calls[k].threw
                /\ calls[k].fn = "getRules" =>
                      calls[k].result = addedSince(SubSeq(calls, 1, k - 1))
          /\ (\A p \in Procs : proc[p].pc = "idle") =>
                loadConfig(file).rules = addedSince(calls))
    /\ [][(Len(calls') > Len(calls) /\ calls'[Len(calls')].fn = "clearRules"
           /\ ~file.exists) => (file' = file /\ ~calls'[Len(calls')].threw)]_vars

\* clearRules on the missing file in one process, then two rules added by
\* different processes, then both read back in order.
C18_Witness ==
    /\ Len(calls) = 4
    /\ calls[1].fn = "clearRules" /\ calls[1].caught
    /\ calls[2].fn = "addRule" /\ calls[2].rule = <<"b","\"">>
    /\ calls[3].fn = "addRule" /\ calls[3].rule = <<"\\","n">>
    /\ calls[4].fn = "getRules"
    /\ calls[4].result = <<ruleValue(<<"b","\"">>), ruleValue(<<"\\","n">>)>>

\* The file holds no list of rules: it is missing, is not JSON, or has no
\* array under "rules".
NoRulesArray(f) ==
    LET Of(r) == \/ ~r.ok
                 \/ r.v.t # "object"
                 \/ \A i \in 1..Len(r.v.o) :
                       (r.v.o[i].k = RulesKey /\ r.v.o[i].v.t = "array")
                       => \E j \in (i + 1)..Len(r.v.o) : r.v.o[j].k = RulesKey
    IN  ~f.exists \/ Of(JSONparse(f.text))

\* C19: getRules never fails; it returns the empty list when the rules file
\* does not exist, is not valid JSON, or holds a "rules" value that is not
\* an array; and it leaves the file as it was.
C19_GetRulesTotal ==
    [][(Len(calls') > Len(calls) /\ calls'[Len(calls')].fn = "getRules") =>
          /\ ~calls'[Len(calls')].threw
          /\ file' = file
          /\ NoRulesArray(file) => calls'[Len(calls')].result = <<>>]_vars

\* getRules has returned the empty list for a file that is not JSON, and the
\* file is still there.
C19_Witness ==
    /\ Len(calls) = 1
    /\ calls[1].fn = "getRules"
    /\ calls[1].caught
    /\ calls[1].result = <<>>
    /\ file = FileMalformed

Did(what) == {k \in 1..Len(effects) : effects[k].what = what}

Printed(message) ==
    \E k \in 1..Len(effects) :
        /\ effects[k].what = "console.log"
        /\ effects[k].line = "selected"
        /\ effects[k].text = message

\* C20: once a message is selected, git commit is run if and only if neither
\* --dry-run nor --clipboard is set; --dry-run prints the message and does
\* nothing else, --clipboard copies it and does not print it, both together
\* print and copy; --yes changes none of this.
C20_CommitOnlyWithoutFlags ==
    (cliPc = "done" /\ selected # <<>>) =>
        /\ Did("commit") # {} <=> (~opts.dryRun /\ ~opts.clipboard)
        /\ \A k \in Did("commit") : effects[k].text = selected[1]
        /\ Cardinality(Did("commit")) <= 1
        /\ Printed(selected[1]) <=> opts.dryRun
        /\ Did("copyToClipboard") # {} <=> opts.clipboard
        /\ \A k \in Did("copyToClipboard") : effects[k].text = selected[1]

\* --yes with --dry-run and --clipboard: the first candidate, which has a
\* body, was printed and copied and the process ended with no commit.
C20_Witness ==
    /\ cliPc = "done"
    /\ opts.yes /\ opts.dryRun /\ opts.clipboard
    /\ Len(cliCandidates) = 2
    /\ selected = <<cliCandidates[1]>>
    /\ includesNewline(selected[1])
    /\ Printed(selected[1])
    /\ \E k \in Did("copyToClipboard") : effects[k].ok
    /\ Did("commit") = {}
    /\ exitCode = 0

\* The things only the main flow does.
MainFlowEffects ==
    {"getStagedDiff", "which ollama", "fetch /api/tags", "getStagedStat",
     "generateCommitMessages", "select", "copyToClipboard", "commit"}

RuleEffects == {"getRules", "clearRules", "addRule"}

\* The CLI has done exactly one rule operation and nothing of the main flow.
OnlyRuleOperation ==
    /\ \A k \in 1..Len(effects) : effects[k].what \notin MainFlowEffects
    /\ Cardinality({k \in 1..Len(effects) : effects[k].what \in RuleEffects}) = 1
    /\ exitCode = 0

\* C21: when --rules, --clear-rules or --add-rule is given, the CLI does
\* only that rule operation and exits: it never reads the staged diff, never
\* contacts the backend and never commits; and --rules leaves the stored
\* rules as they were.
C21_RuleOptionsOnly ==
    /\ []((cliPc # "start" /\ (opts.rules \/ opts.clearRules \/ opts.addRule.given))
              => (cliPc = "done" /\ OnlyRuleOperation))
    /\ [][(cliPc = "start" /\ opts.rules) => file' = file]_vars

ErrorWritten(line) ==
    \E k \in 1..Len(effects) : effects[k].what = "console.error" /\ effects[k].line = line

BackendEffects == {"which ollama", "fetch /api/tags", "generateCommitMessages"}

\* C22: in the main flow the staged diff is read before Ollama is checked,
\* and both before generation is asked for. With nothing staged the CLI
\* exits 1 with "No staged changes found." and no contact with the backend;
\* with the server not answering it exits 1 with the server-not-running
\* error and generates, selects and commits nothing.
C22_ChecksBeforeGeneration ==
    /\ \A k \in 1..Len(effects) :
          /\ effects[k].what = "which ollama" =>
                \E j \in 1..(k - 1) : effects[j].what = "getStagedDiff" /\ effects[j].ok
          /\ effects[k].what = "generateCommitMessages" =>
                \E i, j \in 1..(k - 1) :
                    /\ i < j
                    /\ effects[i].what = "which ollama" /\ effects[i].ok
                    /\ effects[j].what = "fetch /api/tags"
          /\ effects[k].what \in {"select", "copyToClipboard", "commit"} =>
                \E j \in 1..(k - 1) : effects[j].what = "generateCommitMessages"
    /\ (\E k \in 1..Len(effects) : effects[k].what = "getStagedDiff" /\ ~effects[k].ok) =>
          /\ cliPc = "done" /\ exitCode = 1
          /\ ErrorWritten("No staged changes found.")
          /\ \A k \in 1..Len(effects) : effects[k].what \notin BackendEffects
    /\ ErrorWritten("Error: Ollama server is not running.") =>
          /\ cliPc = "done" /\ exitCode = 1
          /\ selected = <<>>
          /\ \A k \in 1..Len(effects) :
                effects[k].what \notin {"generateCommitMessages", "select",
                                        "copyToClipboard", "commit"}

\* Changes were staged and the binary was found, but the server did not
\* answer: the process has ended with exit code 1.
C22_Witness ==
    /\ cliPc = "done"
    /\ exitCode = 1
    /\ ErrorWritten("Error: Ollama server is not running.")
    /\ effects[1] = Ran("getStagedDiff")
    /\ Did("fetch /api/tags") # {}

(***************************************************************************)
(* The pool across attempts                                                *)
(***************************************************************************)

IsPrefix(xs, ys) == Len(xs) <= Len(ys) /\ SubSeq(ys, 1, Len(xs)) = xs

\* C23: while the loop runs the pool only grows at its end: after every
\* answer to a generate request the pool held before is a prefix of the
\* pool the loop body leaves, what was appended was not in the pool and has
\* no repetition, and the pool kept is the first 3 of it, in that order.
C23_PoolOnlyGrows ==
    [][pc = "awaitGenerate" =>
          /\ candidates = merged
          /\ IsPrefix(candidates, merged')
          /\ IsPrefix(candidates, candidates')
          /\ \A i \in (Len(candidates) + 1)..Len(merged') :
                /\ merged'[i] \notin Range(candidates)
                /\ \A j \in (Len(candidates) + 1)..Len(merged') :
                      i # j => merged'[i] # merged'[j]
          /\ candidates' = SubSeq(merged', 1, IF Len(merged') < 3 THEN Len(merged') ELSE 3)]_vars

\* Subject+body mode: a second response added two blocks to a pool of two,
\* and the first three of the four were kept.
C23_Witness ==
    /\ hasBody
    /\ generateCount = 2
    /\ Len(merged) = 4
    /\ pc = "awaitShorten"
    /\ candidates = SubSeq(merged, 1, 3)

\* C24, as stated: the pool never has more than 3 members, whether kept
\* between attempts or as the loop body leaves it.
C24_PoolNeverOverThree ==
    Len(candidates) <= POOL_TARGET /\ Len(merged) <= POOL_TARGET

\* C24, amended: the loop body can leave the pool with up to 5 members (at
\* most 2 when the attempt began, at most 3 appended); that is cut to 3
\* before the loop's result is used, so a generate request is only ever
\* outstanding with fewer than 3 in the pool, and the repair pass and the
\* return see at most 3.
C24_PoolOverThreeOnlyBeforeSlice ==
    /\ Len(candidates) <= POOL_TARGET
    /\ Len(merged) <= (POOL_TARGET - 1) + 3
    /\ pc = "awaitGenerate" => Len(candidates) < POOL_TARGET /\ merged = candidates
    /\ Len(merged) > POOL_TARGET => Len(candidates) = POOL_TARGET

\* Single-line mode: three new candidates were appended to a pool of two.
C24_Witness ==
    /\ ~hasBody
    /\ Len(merged) = 5
    /\ Len(candidates) = 3
    /\ generateCount = 2

(***************************************************************************)
(* Which candidates of a response reach the pool                           *)
(***************************************************************************)

\* The validity filter in the words of its description: not empty, no code
\* fence marker; in single-line mode exactly one line and no whitespace,
\* bullet, whitespace in it; in subject+body mode a first line that is not
\* empty and some later line that is not blank.
validAsDescribed(message, hb) ==
    LET Lines(lines) ==
            IF hb
            THEN /\ Len(lines[1]) > 0
                 /\ \E i \in 2..Len(lines) : Len(trim(lines[i])) > 0
            ELSE Len(lines) = 1 /\ ~hasBulletPattern(message)
    IN  /\ Len(message) > 0
        /\ ~includesFence(message)
        /\ Lines(split(message, "\n"))

\* C25: of the candidates parseResponse gives for a response, the ones pushed
\* onto the pool are exactly those that are valid as described, and dropping
\* the others writes no error and ends nothing.
C25_AdmittedIffValid ==
    pc = "merged" =>
        /\ \A i \in 1..Len(pout) :
              (pout[i] \in Range(merged)) <=> validAsDescribed(pout[i], hasBody)
        /\ Range(merged) \subseteq Range(pout)
        /\ stderr = ""
        /\ failed = NoRequest

\* Single-line mode, a line of commentary and then "add x - y": the first is
\* pushed, the second is not.
C25_Witness ==
    /\ pc = "merged"
    /\ ~hasBody
    /\ praw = SampleCommentary
    /\ Len(pout) = 2
    /\ hasBulletPattern(pout[2])
    /\ merged = <<pout[1]>>

(***************************************************************************)
(* The length-repair pass                                                  *)
(***************************************************************************)

\* The line the repair pass measures a pool member by.
relevantLine(message) == IF hasBody THEN firstLine(message) ELSE message

\* The requests of the log asking to shorten pool member i.
repairRequests(i) ==
    {k \in 1..Len(requests) : requests[k].kind = "shorten" /\ requests[k].n = i}

\* The pool members whose relevant line is over 72 code units.
overLength == {i \in 1..Len(settled) : Len(relevantLine(settled[i].from)) > 72}

\* C26: once the repair pass has begun, a pool member whose relevant line
\* has at most 72 code units is settled at once with its own text and no
\* request is made for it, and a member over 72 gets exactly one shorten
\* request. The requests of an invocation are its attempts (at most 3) and
\* one per over-length member (at most 3).
C26_RepairRequests ==
    /\ generateCount <= 3
    /\ shortenCount <= 3
    /\ Len(requests) = generateCount + shortenCount
    /\ Len(requests) <= 3 + 3
    /\ Len(settled) = 0 => shortenCount = 0
    /\ Len(settled) > 0 =>
          /\ shortenCount = Cardinality(overLength)
          /\ \A i \in 1..Len(settled) :
                IF i \in overLength
                THEN Cardinality(repairRequests(i)) = 1
                ELSE /\ repairRequests(i) = {}
                     /\ settled[i].done
                     /\ settled[i].value = settled[i].from
    /\ pc = "returned" =>
          \A i \in 1..Len(returned) :
              i \notin overLength => returned[i] = settled[i].from

\* Three attempts and three repairs: six requests, and a list was returned.
C26_Witness ==
    /\ pc = "returned"
    /\ generateCount = 3
    /\ shortenCount = 3

\* C27: in subject+body mode the lines after the first of every returned
\* string are the lines after the first of the pool member at the same
\* index, in the same order.
C27_OnlyFirstLineChanged ==
    (pc = "returned" /\ hasBody) =>
        /\ Len(returned) = Len(settled)
        /\ \A i \in 1..Len(returned) :
              Tail(split(returned[i], "\n")) = Tail(split(settled[i].from, "\n"))

\* The cleaned candidates of the response that pass the validity filter,
\* letter case set aside.
validInResponse ==
    {toLowerCase(c) : c \in {x \in Range(rawCandidates(praw, hasBody)) :
                                 isValidCommitMessage(x, hasBody)}}

\* C28: when a response holds at least 3 distinct valid candidates, handling
\* it fills the empty pool to 3, wherever its invalid candidates stand.
C28_InvalidTakeNoSlot ==
    (pc = "merged" /\ Cardinality(validInResponse) >= 3) => Len(merged) = 3

(***************************************************************************)
(* addRule in two processes at once                                        *)
(***************************************************************************)

\* The addRule calls of the log that ran to their end.
addsDone == {k \in 1..Len(calls) : calls[k].fn = "addRule" /\ ~calls[k].threw}

\* C29: whenever no addRule is under way, the rules file holds every rule
\* added so far: as many rules as addRule calls were made, each added rule
\* among them.
C29_NoRuleLost ==
    (\A p \in Procs : proc[p].pc = "idle") =>
        LET Holds(now) ==
                /\ Len(now) = Cardinality(addsDone)
                /\ \A k \in addsDone : ruleValue(calls[k].rule) \in Range(now)
        IN  Holds(loadConfig(file).rules)

(***************************************************************************)
(* Termination                                                             *)
(***************************************************************************)

====
